---- MODULE Spec2Model ----
(***************************************************************************)
(* A model of parts of the vrp solver:                                     *)
(*   - the compatibility constraint module (vrp-pragmatic),                *)
(*   - the startup of the evolution simulator (vrp-core),                  *)
(*   - the variation coefficient termination helper (vrp-core),            *)
(*   - float comparison and the dominance order (nsga2),                   *)
(*   - the two foldings of the position insertion evaluator (vrp-core).    *)
(* Each part has its own variables and its own specification; the          *)
(* variables of the other parts stay at their idle values.                 *)
(***************************************************************************)
EXTENDS Integers, Naturals, Sequences, FiniteSets, TLC

VARIABLES
    \* ---- compatibility module ----
    jobCompat,      \* job id -> compatibility dimension ("nil" = no value)
    tours,          \* route index -> sequence of job ids (route.tour.jobs())
    routeState,     \* route index -> state stored under state_key
    required,       \* jobs not yet assigned
    \* ---- evolution simulator ----
    cfg,            \* the EvolutionConfig handed to EvolutionSimulator::new
    simulator,      \* the Result of EvolutionSimulator::new
    pc,             \* position inside new / create_refinement_ctx
    popSize,        \* refinement_ctx.population.size()
    quota,          \* refinement_ctx.quota: "absent", or what is_reached() answers
    pIdx,           \* index of the next provided individual
    bIdx,           \* index of the next built initial solution
    terminated,     \* is_termination returned true during startup
    events,         \* calls made to the telemetry and to population.add, in order
    stopCall,       \* the last call of should_stop: its inputs and its result
    \* ---- variation coefficient ----
    vcSample,       \* VariationCoefficient.sample
    vcThreshold,    \* VariationCoefficient.threshold, a fraction <<n, d>>
    vcCosts,        \* refinement_ctx.state[key]: <<>> while the key has no entry
    vcGeneration,   \* refinement_ctx.generation
    vcCalled,       \* update_and_check was called in this generation
    vcHist,         \* per generation, the cost passed (-1: no call)
    vcLast,         \* the last call of update_and_check
    \* ---- float comparison and dominance order ----
    fIn,            \* three f64 values
    fOrd,           \* compare_floats on every pair of them, <<>> before the call
    dIn,            \* the fitness vectors of three solutions, one entry per objective
    dOrd,           \* dominance_order on every pair of them, <<>> before the call
    \* ---- insertion evaluator ----
    evJobs,         \* the number of jobs passed to evaluate_all
    evRoutes,       \* the number of routes passed to evaluate_all
    evOutcome,      \* the outcome of the position search of every <<job, route>>
    evTie,          \* the side choose_best_result keeps where the specification leaves it open
    evResult,       \* evaluate_all's result by the value of is_fold_jobs, NoResult before the call
    \* ---- result selectors ----
    slSelector,     \* the selector in use: "best" or "noise"
    slLeft,         \* the first insertion result
    slRight,        \* the second insertion result
    slTie,          \* the side choose_best_result keeps where the specification leaves it open
    slNoise,        \* the noise factors sampled by the calls, in halves
    slOut,          \* select_insertion(left, right) and select_insertion(right, left), <<>> before the calls
    \* ---- two runs of the solver on one problem, configuration and seed ----
    rpProblem,      \* what the two runs share: sizes, methods, insertion outcomes, seed
    rpRuns,         \* per run: position, population, RNG draws used, poll answers, population history
    \* ---- constraint pipeline of the problem reader ----
    plProps,        \* the features the problem uses and its objectives
    plLocks,        \* the problem has locks (relations)
    plPipeline,     \* the modules of the pipeline in order, <<"none">> before it is built
    \* ---- CompatibilityModule::merge ----
    mgCall,         \* the last merge: source, candidate, the result and the result with the arguments swapped
    \* ---- AllJobSelector and the solution context ----
    jsRequired,     \* solution.required, in order
    jsIgnored,      \* solution.ignored
    jsLocked,       \* solution.locked
    jsRoutes,       \* the jobs assigned to the routes
    jsCall,         \* the last select: required before it and the jobs the iterator yields
    \* ---- get_solution_serialized ----
    srArgs,         \* the problem's jobs, generations and max_time
    srSolved,       \* what the solver yields: no solution or the set of assigned jobs
    srPc,           \* "solve", "serialize" or "done"
    srResult,       \* the Result returned
    \* ---- vrp-api: POST /api/v1/solve ----
    apiRequest,     \* the request: how far its input is good and the telemetry_config it carries
    apiSolver,      \* the configuration the solver was built with
    apiResponse,    \* the response sent; status 0 when the handler ended without one
    \* ---- route state of the compatibility module under removals ----
    rcCall,         \* the last evaluate_job of the hard route constraint: cached state, job and result
    rcAccepts,      \* the number of accept_route_state calls so far, modulo 2
    \* ---- create_objective: the objectives and the cost accessor ----
    obApi,          \* api_problem.objectives: the primary and the secondary list
    obResult,       \* the core objectives, the cost indices and what the cost accessor resolves to
    \* ---- vrp-cli interop: the C entry points and their callbacks ----
    ioCall,         \* the entry point called and what its arguments are like
    ioCallbacks,    \* the callbacks invoked by the call, in order
    ioPc,           \* "call", "returned" or "panicked"
    \* ---- depot scenario: a shift with a depot stop that has a time window ----
    dpScenario,     \* the problem: depot location, duration and time window, the jobs
    dpTour,         \* the stops of the tour the solver returns, <<>> before it has solved
    dpStops         \* the schedule of the stops visited so far

compatVars == <<jobCompat, tours, routeState, required>>
evoVars == <<cfg, simulator, pc, popSize, quota, pIdx, bIdx, terminated, events, stopCall>>

vcVars == <<vcSample, vcThreshold, vcCosts, vcGeneration, vcCalled, vcHist, vcLast>>

cmpVars == <<fIn, fOrd, dIn, dOrd>>

evalVars == <<evJobs, evRoutes, evOutcome, evTie, evResult>>

selVars == <<slSelector, slLeft, slRight, slTie, slNoise, slOut>>

reproVars == <<rpProblem, rpRuns>>

pipeVars == <<plProps, plLocks, plPipeline>>

mergeVars == <<mgCall>>

jobsVars == <<jsRequired, jsIgnored, jsLocked, jsRoutes, jsCall>>

serVars == <<srArgs, srSolved, srPc, srResult>>

apiVars == <<apiRequest, apiSolver, apiResponse>>

routeVars == <<rcCall, rcAccepts>>

objVars == <<obApi, obResult>>

interopVars == <<ioCall, ioCallbacks, ioPc>>

depotVars == <<dpScenario, dpTour, dpStops>>

vars == <<compatVars, evoVars, vcVars, cmpVars, evalVars, selVars, reproVars, pipeVars, mergeVars, jobsVars, serVars, apiVars, routeVars, objVars, interopVars, depotVars>>

\* what the actions of one part leave alone
notCompatVars == <<evoVars, vcVars, cmpVars, evalVars, selVars, reproVars, pipeVars, mergeVars, jobsVars, serVars, apiVars, routeVars, objVars, interopVars, depotVars>>
notEvoVars == <<compatVars, vcVars, cmpVars, evalVars, selVars, reproVars, pipeVars, mergeVars, jobsVars, serVars, apiVars, routeVars, objVars, interopVars, depotVars>>
notVcVars == <<compatVars, evoVars, cmpVars, evalVars, selVars, reproVars, pipeVars, mergeVars, jobsVars, serVars, apiVars, routeVars, objVars, interopVars, depotVars>>
notCmpVars == <<compatVars, evoVars, vcVars, evalVars, selVars, reproVars, pipeVars, mergeVars, jobsVars, serVars, apiVars, routeVars, objVars, interopVars, depotVars>>
notEvalVars == <<compatVars, evoVars, vcVars, cmpVars, selVars, reproVars, pipeVars, mergeVars, jobsVars, serVars, apiVars, routeVars, objVars, interopVars, depotVars>>
notSelVars == <<compatVars, evoVars, vcVars, cmpVars, evalVars, reproVars, pipeVars, mergeVars, jobsVars, serVars, apiVars, routeVars, objVars, interopVars, depotVars>>
notReproVars == <<compatVars, evoVars, vcVars, cmpVars, evalVars, selVars, pipeVars, mergeVars, jobsVars, serVars, apiVars, routeVars, objVars, interopVars, depotVars>>
notPipeVars == <<compatVars, evoVars, vcVars, cmpVars, evalVars, selVars, reproVars, mergeVars, jobsVars, serVars, apiVars, routeVars, objVars, interopVars, depotVars>>
notMergeVars == <<compatVars, evoVars, vcVars, cmpVars, evalVars, selVars, reproVars, pipeVars, jobsVars, serVars, apiVars, routeVars, objVars, interopVars, depotVars>>
notJobsVars == <<compatVars, evoVars, vcVars, cmpVars, evalVars, selVars, reproVars, pipeVars, mergeVars, serVars, apiVars, routeVars, objVars, interopVars, depotVars>>
notSerVars == <<compatVars, evoVars, vcVars, cmpVars, evalVars, selVars, reproVars, pipeVars, mergeVars, jobsVars, apiVars, routeVars, objVars, interopVars, depotVars>>
notApiVars == <<compatVars, evoVars, vcVars, cmpVars, evalVars, selVars, reproVars, pipeVars, mergeVars, jobsVars, serVars, routeVars, objVars, interopVars, depotVars>>
notRouteVars == <<compatVars, evoVars, vcVars, cmpVars, evalVars, selVars, reproVars, pipeVars, mergeVars, jobsVars, serVars, apiVars, objVars, interopVars, depotVars>>
notObjVars == <<compatVars, evoVars, vcVars, cmpVars, evalVars, selVars, reproVars, pipeVars, mergeVars, jobsVars, serVars, apiVars, routeVars, interopVars, depotVars>>
notInteropVars == <<compatVars, evoVars, vcVars, cmpVars, evalVars, selVars, reproVars, pipeVars, mergeVars, jobsVars, serVars, apiVars, routeVars, objVars, depotVars>>
notDepotVars == <<compatVars, evoVars, vcVars, cmpVars, evalVars, selVars, reproVars, pipeVars, mergeVars, jobsVars, serVars, apiVars, routeVars, objVars, interopVars>>
notCompatRouteVars == <<evoVars, vcVars, cmpVars, evalVars, selVars, reproVars, pipeVars, mergeVars, jobsVars, serVars, apiVars, objVars, interopVars, depotVars>>

(***************************************************************************)
(* Bounds                                                                  *)
(***************************************************************************)
MaxCompatJobs == 3
MaxCompatRoutes == 2
MaxInitialSize == 2
MaxPopulationSize == 2
MaxMethods == 1
MaxIndividuals == 3
MaxSample == 3
MaxCost == 3
MaxGeneration == 4
MaxFloat == 1
MaxObjectives == 2
MaxEvalJobs == 3
MaxEvalRoutes == 3
MaxEvalCells == 4
MaxEvalCost == 2
MaxSelJobs == 2
MaxNoise == 3
MaxSeed == 2
MaxReproSize == 2
MaxReproGenerations == 1
MaxApiObjectives == 2
MaxSelectJobs == 3
MaxSerJobs == 3
MaxSerBudget == 2
MaxApiSize == 2
MaxApiGenerations == 2
MaxRouteJobs == 2
MaxRouteRoutes == 1
MaxObjectiveList == 2
MaxInteropInputs == 2
MaxDepotX == 7
MaxDepotStart == 10

(***************************************************************************)
(* Compatibility module                                                    *)
(***************************************************************************)
\* Option<String>: "nil" is None, any other string is Some(value).
CompatValues == {"a", "b"}
OptCompat == CompatValues \cup {"nil"}
\* Option<&Option<String>> read from the route state map:
\* "absent" is None, "nil" is Some(None), a value v is Some(Some(v)).
RouteStates == OptCompat \cup {"absent"}

CompatJobIds == 1..MaxCompatJobs
CompatRoutes == 1..MaxCompatRoutes

\* the violation code the module is constructed with
CompatCode == 1

get_job_compatibility(job) == jobCompat[job]

\* position of the first job of the tour that has a compatibility value
FirstCompatIdx(tour) ==
    LET idxs == {i \in 1..Len(tour) : get_job_compatibility(tour[i]) # "nil"}
    IN  IF idxs = {} THEN 0 ELSE CHOOSE i \in idxs : \A k \in idxs : i <= k

get_route_compatibility(tour) ==
    IF FirstCompatIdx(tour) = 0 THEN "nil"
    ELSE get_job_compatibility(tour[FirstCompatIdx(tour)])

\* a plausible slip: a state that holds a value is not cleared
accept_route_state_keep(tour, current_compat) ==
    LET new_comp == get_route_compatibility(tour)
    IN  IF new_comp = "nil" THEN current_compat ELSE new_comp

accept_route_state(tour, current_compat) ==
    LET new_comp == get_route_compatibility(tour)
    IN  IF new_comp = "nil" /\ current_compat = "absent" THEN current_compat
        ELSE IF new_comp = "nil" THEN "nil"
        ELSE new_comp

\* a plausible slip: the state is refreshed for untagged jobs only
accept_insertion_untagged(states, trs, route_index, job) ==
    IF get_job_compatibility(job) = "nil"
    THEN [states EXCEPT ![route_index] = accept_route_state(trs[route_index], states[route_index])]
    ELSE states

accept_insertion(states, trs, route_index, job) ==
    IF get_job_compatibility(job) # "nil"
    THEN [states EXCEPT ![route_index] = accept_route_state(trs[route_index], states[route_index])]
    ELSE states

\* a plausible slip: a route without a cached value rejects tagged jobs
evaluate_job_uncached_rejects(route_compat_state, job) ==
    LET job_compat == get_job_compatibility(job)
    IN  IF job_compat = "nil" THEN 0
        ELSE IF job_compat = route_compat_state THEN 0
        ELSE CompatCode

\* 0 is "no violation", otherwise the violation code
evaluate_job(route_compat_state, job) ==
    LET job_compat == get_job_compatibility(job)
    IN  IF job_compat = "nil" THEN 0
        ELSE IF route_compat_state \in {"absent", "nil"} THEN 0
        ELSE IF job_compat = route_compat_state THEN 0
        ELSE CompatCode

InsertAt(seq, pos, x) == SubSeq(seq, 1, pos) \o <<x>> \o SubSeq(seq, pos + 1, Len(seq))

CompatInit ==
    /\ jobCompat \in [CompatJobIds -> OptCompat]
    /\ tours = [r \in CompatRoutes |-> <<>>]
    /\ routeState = [r \in CompatRoutes |-> "absent"]
    /\ required = CompatJobIds

CompatIdle ==
    /\ jobCompat = <<>>
    /\ tours = <<>>
    /\ routeState = <<>>
    /\ required = {}

\* One insertion step: the hard route constraint is evaluated on the current
\* route, the job is put into the tour, and accept_insertion finalizes it.
InsertJob(r, j, pos) ==
    /\ j \in required
    /\ evaluate_job(routeState[r], j) = 0
    /\ LET newTours == [tours EXCEPT ![r] = InsertAt(tours[r], pos, j)]
       IN  /\ tours' = newTours
           /\ routeState' = accept_insertion(routeState, newTours, r, j)
    /\ required' = required \ {j}
    /\ UNCHANGED <<jobCompat, notCompatVars>>

CompatNext ==
    \E r \in CompatRoutes, j \in CompatJobIds :
        \E pos \in 0..Len(tours[r]) : InsertJob(r, j, pos)

(***************************************************************************)
(* Evolution simulator: construction and startup                           *)
(***************************************************************************)
Min(a, b) == IF a < b THEN a ELSE b

Configs ==
    [initial_size : 0..MaxInitialSize,
     max_size : 0..MaxPopulationSize,
     n_methods : 0..MaxMethods,
     n_individuals : 0..MaxIndividuals]

NoConfig == [initial_size |-> 0, max_size |-> 0, n_methods |-> 0, n_individuals |-> 0]

\* a plausible slip: the size check refuses initial.size = max_size
EvolutionSimulator_new_strict(config) ==
    IF config.initial_size < 1
    THEN [ok |-> FALSE, err |-> "initial size should be greater than 0", config |-> NoConfig]
    ELSE IF config.initial_size >= config.max_size
    THEN [ok |-> FALSE, err |-> "initial size should be less or equal population size", config |-> NoConfig]
    ELSE IF config.n_methods = 0
    THEN [ok |-> FALSE, err |-> "at least one initial method has to be specified", config |-> NoConfig]
    ELSE [ok |-> TRUE, err |-> "", config |-> config]

EvolutionSimulator_new(config) ==
    IF config.initial_size < 1
    THEN [ok |-> FALSE, err |-> "initial size should be greater than 0", config |-> NoConfig]
    ELSE IF config.initial_size > config.max_size
    THEN [ok |-> FALSE, err |-> "initial size should be less or equal population size", config |-> NoConfig]
    ELSE IF config.n_methods = 0
    THEN [ok |-> FALSE, err |-> "at least one initial method has to be specified", config |-> NoConfig]
    ELSE [ok |-> TRUE, err |-> "", config |-> config]

\* quota.as_ref().map_or(false, |quota| quota.is_reached())
is_quota_reached(q) == IF q = "absent" THEN FALSE ELSE q = "yes"

\* a plausible slip: && in place of ||
should_add_solution_and(q, size) ==
    LET is_population_empty == size = 0
    IN  is_population_empty /\ ~is_quota_reached(q)

should_add_solution(q, size) ==
    LET is_population_empty == size = 0
    IN  is_population_empty \/ ~is_quota_reached(q)

\* a plausible slip: an absent quota counts as reached
should_stop_absent_reached(is_terminated, q) ==
    is_terminated \/ (IF q = "absent" THEN TRUE ELSE q = "yes")

should_stop(is_terminated, q) ==
    is_terminated \/ is_quota_reached(q)

\* the individuals startup looks at: provided.zip(0..).take(initial.size)
\* a plausible slip: the take is forgotten
provided_taken_all(n_individuals, initial_size) == n_individuals

provided_taken(n_individuals, initial_size) == Min(n_individuals, initial_size)

\* the end of the range population.size()..initial.size of the build loop
\* a plausible slip: the range stops one short
build_range_end_short(initial_size) == initial_size - 1

\* a plausible slip: the range is inclusive
build_range_end_inclusive(initial_size) == initial_size + 1

build_range_end(initial_size) == initial_size

\* DominancePopulation.add: the individual is inserted and the worst ones are
\* dropped until the size is at most max_size.
population_add(size, max_size) == Min(size + 1, max_size)

Ev(op, kind, idx, q) == [op |-> op, kind |-> kind, idx |-> idx, q |-> q]

\* the telemetry call that ends create_refinement_ctx
\* a plausible slip: on_generation is called for an empty population too
finish_telemetry_always(size, q) == Ev("on_generation", "is_new_best", 0, q)

finish_telemetry(size, q) ==
    IF size > 0 THEN Ev("on_generation", "is_new_best", 0, q)
    ELSE Ev("log", "created an empty population", 0, q)

NoStopCall == [called |-> FALSE, is_terminated |-> FALSE, quota |-> "absent", result |-> FALSE]

EvoInit ==
    /\ cfg \in Configs
    /\ simulator = [ok |-> FALSE, err |-> "", config |-> NoConfig]
    /\ pc = "new"
    /\ popSize = 0
    /\ quota \in {"absent", "no", "yes"}
    /\ pIdx = 0
    /\ bIdx = 0
    /\ terminated = FALSE
    /\ events = <<>>
    /\ stopCall = NoStopCall

EvoIdle ==
    /\ cfg = NoConfig
    /\ simulator = [ok |-> FALSE, err |-> "", config |-> NoConfig]
    /\ pc = "idle"
    /\ popSize = 0
    /\ quota = "absent"
    /\ pIdx = 0
    /\ bIdx = 0
    /\ terminated = FALSE
    /\ events = <<>>
    /\ stopCall = NoStopCall

\* EvolutionSimulator::new
New ==
    /\ pc = "new"
    /\ simulator' = EvolutionSimulator_new(cfg)
    /\ pc' = IF EvolutionSimulator_new(cfg).ok THEN "start" ELSE "failed"
    /\ UNCHANGED <<cfg, popSize, quota, pIdx, bIdx, terminated, events, stopCall, notEvoVars>>

\* create_refinement_ctx up to the first loop: telemetry.start(), an empty
\* population, the quota moved into the refinement context, the log line
Start ==
    /\ pc = "start"
    /\ events' = events \o <<Ev("start", "", 0, quota), Ev("log", "problem", 0, quota)>>
    /\ popSize' = 0
    /\ pIdx' = 0
    /\ pc' = "provided"
    /\ UNCHANGED <<cfg, simulator, quota, bIdx, terminated, stopCall, notEvoVars>>

\* one round of the for_each over the provided individuals
ProvidedStep ==
    /\ pc = "provided"
    /\ pIdx < provided_taken(simulator.config.n_individuals, simulator.config.initial_size)
    /\ IF should_add_solution(quota, popSize)
       THEN /\ events' = events \o <<Ev("on_initial", "provided", pIdx, quota),
                                     Ev("add", "provided", pIdx, quota)>>
            /\ popSize' = population_add(popSize, simulator.config.max_size)
       ELSE /\ events' = Append(events, Ev("log_skip", "provided", pIdx, quota))
            /\ UNCHANGED popSize
    /\ pIdx' = pIdx + 1
    /\ UNCHANGED <<cfg, simulator, pc, quota, bIdx, terminated, stopCall, notEvoVars>>

\* the for_each is over: the build range starts at the population size
ProvidedDone ==
    /\ pc = "provided"
    /\ pIdx >= provided_taken(simulator.config.n_individuals, simulator.config.initial_size)
    /\ bIdx' = popSize
    /\ pc' = "build"
    /\ UNCHANGED <<cfg, simulator, popSize, quota, pIdx, terminated, events, stopCall, notEvoVars>>

\* one round of the try_for_each in which termination fires
BuildTerminated ==
    /\ pc = "build"
    /\ bIdx < build_range_end(simulator.config.initial_size)
    /\ terminated' = TRUE
    /\ pc' = "finish"
    /\ UNCHANGED <<cfg, simulator, popSize, quota, pIdx, bIdx, events, stopCall, notEvoVars>>

\* one round of the try_for_each in which an initial method runs
BuildStep(method_idx) ==
    /\ pc = "build"
    /\ bIdx < build_range_end(simulator.config.initial_size)
    /\ method_idx < simulator.config.n_methods
    /\ IF should_add_solution(quota, popSize)
       THEN /\ events' = events \o <<Ev("add", "built", bIdx, quota),
                                     Ev("on_initial", "built", bIdx, quota)>>
            /\ popSize' = population_add(popSize, simulator.config.max_size)
       ELSE /\ events' = Append(events, Ev("log_skip", "built", bIdx, quota))
            /\ UNCHANGED popSize
    /\ bIdx' = bIdx + 1
    /\ UNCHANGED <<cfg, simulator, pc, quota, pIdx, terminated, stopCall, notEvoVars>>

BuildDone ==
    /\ pc = "build"
    /\ bIdx >= build_range_end(simulator.config.initial_size)
    /\ pc' = "finish"
    /\ UNCHANGED <<cfg, simulator, popSize, quota, pIdx, bIdx, terminated, events, stopCall, notEvoVars>>

\* the end of create_refinement_ctx
Finish ==
    /\ pc = "finish"
    /\ events' = Append(events, finish_telemetry(popSize, quota))
    /\ pc' = "done"
    /\ UNCHANGED <<cfg, simulator, popSize, quota, pIdx, bIdx, terminated, stopCall, notEvoVars>>

\* the quota is a flag shared with the caller: a present quota may change its
\* answer between two polls
QuotaChange ==
    /\ pc \in {"provided", "build", "finish", "done"}
    /\ quota # "absent"
    /\ quota' = IF quota = "no" THEN "yes" ELSE "no"
    /\ UNCHANGED <<cfg, simulator, pc, popSize, pIdx, bIdx, terminated, events, stopCall, notEvoVars>>

\* should_stop as the evolution strategy calls it on the refinement context
ShouldStop(is_terminated) ==
    /\ pc = "done"
    /\ stopCall' = [called |-> TRUE, is_terminated |-> is_terminated, quota |-> quota,
                    result |-> should_stop(is_terminated, quota)]
    /\ UNCHANGED <<cfg, simulator, pc, popSize, quota, pIdx, bIdx, terminated, events, notEvoVars>>

EvoNext ==
    \/ New
    \/ Start
    \/ ProvidedStep
    \/ ProvidedDone
    \/ BuildTerminated
    \/ \E m \in 0..(MaxMethods - 1) : BuildStep(m)
    \/ BuildDone
    \/ Finish
    \/ QuotaChange
    \/ \E t \in BOOLEAN : ShouldStop(t)

(***************************************************************************)
(* f64 arithmetic, as far as the variation coefficient needs it: a value   *)
(* is a fraction n/d (k = "num"), NaN, +infinity, or the square root of a  *)
(* fraction with its sign (k = "sqrt", "nsqrt").                           *)
(***************************************************************************)
Abs(x) == IF x < 0 THEN -x ELSE x

RECURSIVE GCD(_, _)
GCD(a, b) == IF b = 0 THEN a ELSE GCD(b, a % b)

FNum(n, d) ==
    LET m == IF d < 0 THEN -n ELSE n
        e == Abs(d)
        g == GCD(Abs(m), e)
    IN  [k |-> "num", n |-> m \div g, d |-> e \div g]

FNaN == [k |-> "nan", n |-> 0, d |-> 1]
FPInf == [k |-> "pinf", n |-> 0, d |-> 1]
FNInf == [k |-> "ninf", n |-> 0, d |-> 1]
FInt(i) == FNum(i, 1)

FAdd(a, b) ==
    IF a.k = "num" /\ b.k = "num" THEN FNum(a.n * b.d + b.n * a.d, a.d * b.d)
    ELSE IF a.k = "nan" \/ b.k = "nan" THEN FNaN
    ELSE IF a.k = "num" THEN b
    ELSE IF b.k = "num" \/ a.k = b.k THEN a
    ELSE FNaN

FNeg(a) ==
    IF a.k = "num" THEN FNum(-a.n, a.d)
    ELSE IF a.k = "pinf" THEN FNInf
    ELSE IF a.k = "ninf" THEN FPInf
    ELSE a

FSub(a, b) == FAdd(a, FNeg(b))

FSign(a) ==
    IF a.k = "pinf" THEN 1 ELSE IF a.k = "ninf" THEN -1
    ELSE IF a.n > 0 THEN 1 ELSE IF a.n < 0 THEN -1 ELSE 0

FMul(a, b) ==
    IF a.k = "num" /\ b.k = "num" THEN FNum(a.n * b.n, a.d * b.d)
    ELSE IF a.k = "nan" \/ b.k = "nan" THEN FNaN
    ELSE IF FSign(a) * FSign(b) = 0 THEN FNaN
    ELSE IF FSign(a) * FSign(b) > 0 THEN FPInf ELSE FNInf

\* a / b for a divisor that is a number
FDiv(a, b) ==
    IF a.k = "nan" THEN FNaN
    ELSE IF b.n = 0
    THEN (IF FSign(a) = 0 THEN FNaN ELSE IF FSign(a) > 0 THEN FPInf ELSE FNInf)
    ELSE IF a.k = "num" THEN FNum(a.n * b.d, a.d * b.n)
    ELSE IF FSign(a) * FSign(b) > 0 THEN FPInf ELSE FNInf

FSqrt(a) ==
    IF a.k = "nan" \/ a.k = "ninf" THEN FNaN
    ELSE IF a.k = "pinf" THEN FPInf
    ELSE IF a.n < 0 THEN FNaN
    ELSE [k |-> "sqrt", n |-> a.n, d |-> a.d]

\* sqrt(q) / m for a number m
FSqrtDiv(s, m) ==
    IF s.k = "nan" THEN FNaN
    ELSE IF s.k = "pinf"
    THEN (IF m.n < 0 THEN FNInf ELSE FPInf)
    ELSE IF m.n = 0
    THEN (IF s.n = 0 THEN FNaN ELSE FPInf)
    ELSE LET q == FDiv(FNum(s.n, s.d), FMul(m, m))
         IN  [k |-> IF m.n > 0 THEN "sqrt" ELSE "nsqrt", n |-> q.n, d |-> q.d]

\* a < t for a number t; a comparison with NaN is false
FLess(a, t) ==
    IF a.k = "nan" \/ a.k = "pinf" THEN FALSE
    ELSE IF a.k = "ninf" THEN TRUE
    ELSE IF a.k = "num" THEN a.n * t.d < t.n * a.d
    ELSE IF a.k = "sqrt" THEN t.n > 0 /\ a.n * t.d * t.d < t.n * t.n * a.d
    ELSE t.n > 0 \/ a.n * t.d * t.d > t.n * t.n * a.d

(***************************************************************************)
(* VariationCoefficient                                                    *)
(***************************************************************************)
Thresholds == {<<0, 1>>, <<3, 5>>, <<6, 5>>}

RECURSIVE SumSeq(_)
SumSeq(xs) == IF xs = <<>> THEN FInt(0) ELSE FAdd(FInt(Head(xs)), SumSeq(Tail(xs)))

\* the fold of calculate_variance: acc is <<first, second>>
RECURSIVE VarianceFold(_, _, _)
VarianceFold(acc, xs, mean) ==
    IF xs = <<>> THEN acc
    ELSE LET dev == FSub(FInt(Head(xs)), mean)
         IN  VarianceFold(<<FAdd(acc[1], FMul(dev, dev)), FAdd(acc[2], dev)>>, Tail(xs), mean)

\* a plausible slip: the uncorrected variance, divided by n
calculate_variance_population(costs, mean, sample) ==
    LET acc == VarianceFold(<<FInt(0), FInt(0)>>, costs, mean)
    IN  FDiv(FSub(acc[1], FDiv(FMul(acc[2], acc[2]), FInt(sample))), FInt(sample))

calculate_variance(costs, mean, sample) ==
    LET acc == VarianceFold(<<FInt(0), FInt(0)>>, costs, mean)
    IN  FDiv(FSub(acc[1], FDiv(FMul(acc[2], acc[2]), FInt(sample))), FInt(sample - 1))

check_threshold(costs, sample, threshold) ==
    LET sum == SumSeq(costs)
        mean == FDiv(sum, FInt(sample))
        variance == calculate_variance(costs, mean, sample)
        sdev == FSqrt(variance)
        cv == FSqrtDiv(sdev, mean)
    IN  FLess(cv, FNum(threshold[1], threshold[2]))

\* entry(key).or_insert_with(|| vec![0.; sample])
costs_entry(entry, sample) == IF entry = <<>> THEN [i \in 1..sample |-> 0] ELSE entry

\* a plausible slip: the slot is taken one generation ahead
write_cost_ahead(costs, generation, sample, cost) ==
    [costs EXCEPT ![((generation + 1) % sample) + 1] = cost]

\* costs[generation % sample] = cost
write_cost(costs, generation, sample, cost) ==
    [costs EXCEPT ![(generation % sample) + 1] = cost]

\* the first conjunct of update_and_check's result
\* a plausible slip: the test of the generation is left out
is_sample_reached_always(generation, sample) == TRUE

is_sample_reached(generation, sample) == generation >= sample - 1

NoVcCall == [called |-> FALSE, generation |-> 0, cost |-> 0, before |-> <<>>, result |-> FALSE]

VcInit ==
    /\ vcSample \in 1..MaxSample
    /\ vcThreshold \in Thresholds
    /\ vcCosts = <<>>
    /\ vcGeneration = 0
    /\ vcCalled = FALSE
    /\ vcHist = <<>>
    /\ vcLast = NoVcCall

VcIdle ==
    /\ vcSample = 0
    /\ vcThreshold = <<0, 1>>
    /\ vcCosts = <<>>
    /\ vcGeneration = 0
    /\ vcCalled = FALSE
    /\ vcHist = <<>>
    /\ vcLast = NoVcCall

\* update_and_check(refinement_ctx, cost)
UpdateAndCheck(cost) ==
    /\ ~vcCalled
    /\ LET costs == write_cost(costs_entry(vcCosts, vcSample), vcGeneration, vcSample, cost)
       IN  /\ vcCosts' = costs
           /\ vcLast' = [called |-> TRUE, generation |-> vcGeneration, cost |-> cost,
                         before |-> vcCosts,
                         result |-> (is_sample_reached(vcGeneration, vcSample)
                                     /\ check_threshold(costs, vcSample, vcThreshold))]
    /\ vcCalled' = TRUE
    /\ vcHist' = Append(vcHist, cost)
    /\ UNCHANGED <<vcSample, vcThreshold, vcGeneration, notVcVars>>

\* the evolution loop moves on to the next generation
NextGeneration ==
    /\ vcGeneration < MaxGeneration
    /\ vcGeneration' = vcGeneration + 1
    /\ vcCalled' = FALSE
    /\ vcHist' = IF vcCalled THEN vcHist ELSE Append(vcHist, -1)
    /\ UNCHANGED <<vcSample, vcThreshold, vcCosts, vcLast, notVcVars>>

VcNext ==
    \/ \E cost \in 0..MaxCost : UpdateAndCheck(cost)
    \/ NextGeneration

(***************************************************************************)
(* compare_floats and dominance_order                                      *)
(***************************************************************************)
Floats == {FInt(i) : i \in (-MaxFloat)..MaxFloat} \cup {FNaN, FPInf, FNInf}

is_nan(a) == a.k = "nan"

\* f64::partial_cmp: "None" when one of the two is NaN
partial_cmp(a, b) ==
    IF is_nan(a) \/ is_nan(b) THEN "None"
    ELSE IF a.k # "num" /\ a.k = b.k THEN "Equal"
    ELSE IF a.k = "ninf" \/ b.k = "pinf" THEN "Less"
    ELSE IF a.k = "pinf" \/ b.k = "ninf" THEN "Greater"
    ELSE IF a.n * b.d < b.n * a.d THEN "Less"
    ELSE IF a.n * b.d > b.n * a.d THEN "Greater"
    ELSE "Equal"

\* Option::unwrap
unwrap(o) == IF o = "None" THEN "panic" ELSE o

\* a plausible slip: the case of two NaN is left out
compare_floats_nan_unequal(a, b) ==
    IF is_nan(a) THEN "Greater"
    ELSE IF is_nan(b) THEN "Less"
    ELSE unwrap(partial_cmp(a, b))

\* a plausible slip: NaN is taken as the smallest value
compare_floats_nan_least(a, b) ==
    IF is_nan(a) /\ is_nan(b) THEN "Equal"
    ELSE IF is_nan(a) THEN "Less"
    ELSE IF is_nan(b) THEN "Greater"
    ELSE unwrap(partial_cmp(a, b))

compare_floats(a, b) ==
    IF is_nan(a) /\ is_nan(b) THEN "Equal"
    ELSE IF is_nan(a) THEN "Greater"
    ELSE IF is_nan(b) THEN "Less"
    ELSE unwrap(partial_cmp(a, b))

\* Objective::total_order on the fitness of the two solutions
total_order(fitness_a, fitness_b) == compare_floats(fitness_a, fitness_b)

\* the loop of dominance_order: cnt is <<less_cnt, greater_cnt>>
RECURSIVE DominanceCount(_, _, _, _)
DominanceCount(a, b, i, cnt) ==
    IF i > Len(a) THEN cnt
    ELSE LET o == total_order(a[i], b[i])
         IN  DominanceCount(a, b, i + 1,
                            IF o = "Less" THEN <<cnt[1] + 1, cnt[2]>>
                            ELSE IF o = "Greater" THEN <<cnt[1], cnt[2] + 1>>
                            ELSE cnt)

\* a plausible slip: the test that no objective is worse is left out
dominance_order_any_less(a, b) ==
    LET cnt == DominanceCount(a, b, 1, <<0, 0>>)
    IN  IF cnt[1] > 0 THEN "Less"
        ELSE IF cnt[2] > 0 THEN "Greater"
        ELSE "Equal"

dominance_order(a, b) ==
    LET cnt == DominanceCount(a, b, 1, <<0, 0>>)
        less_cnt == cnt[1]
        greater_cnt == cnt[2]
    IN  IF less_cnt > 0 /\ greater_cnt = 0 THEN "Less"
        ELSE IF greater_cnt > 0 /\ less_cnt = 0 THEN "Greater"
        ELSE "Equal"

Fitnesses == {FInt(0), FInt(1), FNaN}
Triple == 1..3
Pairs == Triple \X Triple

CmpIdle ==
    /\ fIn = <<>>
    /\ fOrd = <<>>
    /\ dIn = <<>>
    /\ dOrd = <<>>

FloatInit ==
    /\ fIn \in [Triple -> Floats]
    /\ fOrd = <<>>
    /\ dIn = <<>>
    /\ dOrd = <<>>

DomInit ==
    /\ \E n \in 0..MaxObjectives : dIn \in [Triple -> [1..n -> Fitnesses]]
    /\ dOrd = <<>>
    /\ fIn = <<>>
    /\ fOrd = <<>>

\* compare_floats applied to every pair of the three values
CompareFloats ==
    /\ fOrd = <<>>
    /\ fOrd' = [p \in Pairs |-> compare_floats(fIn[p[1]], fIn[p[2]])]
    /\ UNCHANGED <<fIn, dIn, dOrd, notCmpVars>>

\* dominance_order applied to every pair of the three solutions
DominanceOrder ==
    /\ dOrd = <<>>
    /\ dOrd' = [p \in Pairs |-> dominance_order(dIn[p[1]], dIn[p[2]])]
    /\ UNCHANGED <<fIn, fOrd, dIn, notCmpVars>>

FloatNext == CompareFloats

DomNext == DominanceOrder

(***************************************************************************)
(* PositionInsertionEvaluator                                              *)
(***************************************************************************)
Failure(stopped) == [kind |-> "Failure", stopped |-> stopped, cost |-> 0, job |-> 0, route |-> 0]

Success(cost, job, route) == [kind |-> "Success", stopped |-> FALSE, cost |-> cost, job |-> job, route |-> route]

\* InsertionResult::make_failure
make_failure == Failure(FALSE)

\* the outcomes of a position search: no position, no position and stopped, or a cost
Outcomes ==
    {[found |-> FALSE, stopped |-> b, cost |-> 0] : b \in BOOLEAN}
        \cup {[found |-> TRUE, stopped |-> FALSE, cost |-> c] : c \in 1..MaxEvalCost}

\* evaluate_all has not returned
NoResult == [kind |-> "None", stopped |-> FALSE, cost |-> 0, job |-> 0, route |-> 0]

\* InsertionResult::choose_best_result, tie the side kept where the two rank the same
choose_best_result(left, right, tie) ==
    IF left.kind = "Success" /\ right.kind = "Failure" THEN left
    ELSE IF left.kind = "Failure" /\ right.kind = "Success" THEN right
    ELSE IF left.kind = "Success"
         THEN IF left.cost < right.cost THEN left
              ELSE IF right.cost < left.cost THEN right
              ELSE IF tie = "left" THEN left ELSE right
    ELSE IF left.stopped /\ ~right.stopped THEN left
    ELSE IF right.stopped /\ ~left.stopped THEN right
    ELSE IF tie = "left" THEN left ELSE right

\* a plausible slip: a Failure on the right is kept although the left succeeded
select_insertion_right_failure(left, right, tie) ==
    IF left.kind = "Success" /\ right.kind = "Failure" THEN right
    ELSE choose_best_result(left, right, tie)

\* BestResultSelector::select_insertion
select_insertion(left, right, tie) == choose_best_result(left, right, tie)

\* the result of the position search of one job in one route
position_result(outcome, job, route) ==
    IF outcome[<<job, route>>].found
    THEN Success(outcome[<<job, route>>].cost, job, route)
    ELSE Failure(outcome[<<job, route>>].stopped)

\* evaluate_job_insertion_in_route: the better of the alternative and the search's result
evaluate_job_insertion_in_route(outcome, route, job, alternative, tie) ==
    select_insertion(alternative, position_result(outcome, job, route), tie)

\* routes.iter().fold(make_failure(), ..) over the routes first..n_routes
RECURSIVE FoldRoutes(_, _, _, _, _, _)
FoldRoutes(outcome, job, first, n_routes, acc, tie) ==
    IF first > n_routes THEN acc
    ELSE FoldRoutes(outcome, job, first + 1, n_routes,
                    evaluate_job_insertion_in_route(outcome, first, job, acc, tie), tie)

\* jobs.iter().fold(make_failure(), ..) over the jobs first..n_jobs
RECURSIVE FoldJobs(_, _, _, _, _, _)
FoldJobs(outcome, route, first, n_jobs, acc, tie) ==
    IF first > n_jobs THEN acc
    ELSE FoldJobs(outcome, route, first + 1, n_jobs,
                  evaluate_job_insertion_in_route(outcome, route, first, acc, tie), tie)

\* a plausible slip: the fold over the routes starts at the second route
evaluate_job_skip_first_route(outcome, job, n_routes, tie) ==
    FoldRoutes(outcome, job, IF n_routes > 1 THEN 2 ELSE 1, n_routes, make_failure, tie)

PositionInsertionEvaluator_evaluate_job(outcome, job, n_routes, tie) == FoldRoutes(outcome, job, 1, n_routes, make_failure, tie)

\* a plausible slip: the fold over the jobs stops after the first job
evaluate_route_first_job(outcome, route, n_jobs, tie) ==
    FoldJobs(outcome, route, 1, IF n_jobs > 1 THEN 1 ELSE n_jobs, make_failure, tie)

evaluate_route(outcome, route, n_jobs, tie) == FoldJobs(outcome, route, 1, n_jobs, make_failure, tie)

\* map_reduce: every result a parallel reduce of the mapped items can give; the
\* items keep their order, the grouping is free and the identity may join any group
RECURSIVE MapReduce(_, _)
MapReduce(items, tie) ==
    IF Len(items) = 0 THEN {make_failure}
    ELSE IF Len(items) = 1
         THEN {items[1], select_insertion(make_failure, items[1], tie), select_insertion(items[1], make_failure, tie)}
    ELSE UNION {{select_insertion(a, b, tie) :
                    a \in MapReduce(SubSeq(items, 1, k), tie),
                    b \in MapReduce(SubSeq(items, k + 1, Len(items)), tie)} : k \in 1..(Len(items) - 1)}

\* the results evaluate_all can return
evaluate_all(is_fold_jobs, outcome, n_jobs, n_routes, tie) ==
    IF is_fold_jobs
    THEN MapReduce([job \in 1..n_jobs |-> PositionInsertionEvaluator_evaluate_job(outcome, job, n_routes, tie)], tie)
    ELSE MapReduce([route \in 1..n_routes |-> evaluate_route(outcome, route, n_jobs, tie)], tie)

EvalIdle ==
    /\ evJobs = 0
    /\ evRoutes = 0
    /\ evOutcome = <<>>
    /\ evTie = "left"
    /\ evResult = <<>>

EvalInit ==
    /\ evJobs \in 0..MaxEvalJobs
    /\ evRoutes \in 0..MaxEvalRoutes
    /\ evJobs * evRoutes <= MaxEvalCells
    /\ evOutcome \in [(1..evJobs) \X (1..evRoutes) -> Outcomes]
    /\ evTie \in {"left", "right"}
    /\ evResult = [flip \in BOOLEAN |-> NoResult]

\* evaluate_all with the coin flip is_fold_jobs
EvaluateAll(is_fold_jobs) ==
    /\ evResult[is_fold_jobs] = NoResult
    /\ \E result \in evaluate_all(is_fold_jobs, evOutcome, evJobs, evRoutes, evTie) :
          evResult' = [evResult EXCEPT ![is_fold_jobs] = result]
    /\ UNCHANGED <<evJobs, evRoutes, evOutcome, evTie, notEvalVars>>

EvalNext == \E is_fold_jobs \in BOOLEAN : EvaluateAll(is_fold_jobs)

(***************************************************************************)
(* ResultSelector: BestResultSelector and NoiseResultSelector              *)
(***************************************************************************)
\* the insertion results handed to a selector
InsertionResults ==
    {Failure(b) : b \in BOOLEAN}
        \cup {Success(c, j, 1) : c \in 1..MaxEvalCost, j \in 1..MaxSelJobs}

\* the factors Noise::add can sample, in halves: 2 leaves the cost as it is
NoiseFactors == 1..MaxNoise

\* Noise::add: the cost times the sampled factor (in halves of the cost's unit)
Noise_add(cost, factor) == cost * factor

\* a plausible slip: a Failure on the right is returned although the left succeeded
NoiseResultSelector_select_insertion_right(left, right, left_factor, right_factor) ==
    IF left.kind = "Failure" /\ right.kind = "Success" THEN right
    ELSE IF left.kind = "Success" /\ right.kind = "Success"
         THEN LET left_cost == Noise_add(left.cost, left_factor)
                  right_cost == Noise_add(right.cost, right_factor)
              IN  IF left_cost < right_cost THEN left ELSE right
    ELSE right

NoiseResultSelector_select_insertion(left, right, left_factor, right_factor) ==
    IF left.kind = "Success" /\ right.kind = "Failure" THEN left
    ELSE IF left.kind = "Failure" /\ right.kind = "Success" THEN right
    ELSE IF left.kind = "Success" /\ right.kind = "Success"
         THEN LET left_cost == Noise_add(left.cost, left_factor)
                  right_cost == Noise_add(right.cost, right_factor)
              IN  IF left_cost < right_cost THEN left ELSE right
    ELSE right

\* the factors of a call that samples no noise
NoNoise == <<2, 2, 2, 2>>

SelIdle ==
    /\ slSelector = "best"
    /\ slLeft = NoResult
    /\ slRight = NoResult
    /\ slTie = "left"
    /\ slNoise = NoNoise
    /\ slOut = <<>>

SelInit ==
    /\ slSelector \in {"best", "noise"}
    /\ slLeft \in InsertionResults
    /\ slRight \in InsertionResults
    /\ slTie \in {"left", "right"}
    /\ slNoise = NoNoise
    /\ slOut = <<>>

\* BestResultSelector::select_insertion on the two results, in both orders
SelectBest ==
    /\ slSelector = "best"
    /\ slOut = <<>>
    /\ slOut' = <<select_insertion(slLeft, slRight, slTie), select_insertion(slRight, slLeft, slTie)>>
    /\ UNCHANGED <<slSelector, slLeft, slRight, slTie, slNoise, notSelVars>>

\* NoiseResultSelector::select_insertion on the two results, in both orders;
\* every call samples its own noise
SelectNoise ==
    /\ slSelector = "noise"
    /\ slOut = <<>>
    /\ \E noise \in [1..4 -> NoiseFactors] :
          /\ slNoise' = noise
          /\ slOut' = <<NoiseResultSelector_select_insertion(slLeft, slRight, noise[1], noise[2]),
                        NoiseResultSelector_select_insertion(slRight, slLeft, noise[3], noise[4])>>
    /\ UNCHANGED <<slSelector, slLeft, slRight, slTie, notSelVars>>

SelNext == SelectBest \/ SelectNoise

(***************************************************************************)
(* Two runs of EvolutionSimulator with the same problem, config and seed   *)
(***************************************************************************)
ReproRuns == {1, 2}

\* the value at position draw of the stream a seed fixes
RandomStream(seed, draw) == seed + (draw * (draw + 1)) \div 2

\* Random::weighted: the method index drawn at position draw of the seeded stream
Random_weighted(seed, draw, n_methods) == (RandomStream(seed, draw) % n_methods) + 1

\* Random::is_head_not_tails at position draw of the seeded stream
Random_is_head_not_tails(seed, draw) == (RandomStream(seed, draw) % 2) = 0

\* PositionInsertionEvaluator::is_fold_jobs
is_fold_jobs(seed, draw) == Random_is_head_not_tails(seed, draw)

\* the solution an initial method or a mutation builds from the reduced insertion result
ReproSolution(method_idx, flip, result) ==
    [method |-> method_idx, fold_jobs |-> flip, kind |-> result.kind,
     job |-> result.job, route |-> result.route, cost |-> result.cost]

\* the solutions one build can give: the reduce of evaluate_all may group in any way
ReproBuilt(problem, draws) ==
    LET method_idx == Random_weighted(problem.seed, draws, problem.n_methods)
        flip == is_fold_jobs(problem.seed, draws + 1)
    IN  {ReproSolution(method_idx, flip, result) :
            result \in evaluate_all(flip, problem.outcome, problem.n_jobs, problem.n_routes, problem.tie)}

\* DominancePopulation::add keeping the contents: insert, then drop down to max_size
population_add_solution(pop, solution, max_size) ==
    IF Len(pop) < max_size THEN Append(pop, solution) ELSE pop

ReproFresh ==
    [pc |-> "build", pop |-> <<>>, bIdx |-> 0, gen |-> 0, draws |-> 0,
     quotas |-> <<>>, terminations |-> <<>>, hist |-> <<>>]

ReproIdle ==
    /\ rpProblem = <<>>
    /\ rpRuns = <<>>

ReproInit ==
    /\ rpProblem \in [initial_size : 1..MaxReproSize,
                      max_size : {MaxReproSize + MaxReproGenerations},
                      n_methods : {2},
                      n_jobs : {2},
                      n_routes : {1},
                      outcome : [(1..2) \X (1..1) -> {o \in Outcomes : o.cost <= 2}],
                      tie : {"left", "right"},
                      seed : 1..MaxSeed]
    /\ rpRuns = [r \in ReproRuns |-> ReproFresh]

\* the runs are independent: the second is followed once the first has returned
ReproTurn(r) == r = 1 \/ rpRuns[1].pc = "done"

\* one round of the build loop of create_refinement_ctx
ReproBuild(r, is_terminated, q) ==
    LET run == rpRuns[r] IN
    /\ ReproTurn(r)
    /\ run.pc = "build"
    /\ run.bIdx < build_range_end(rpProblem.initial_size)
    /\ IF is_terminated
       THEN rpRuns' = [rpRuns EXCEPT ![r] =
                [run EXCEPT !.pc = "started", !.terminations = Append(@, TRUE)]]
       ELSE \E solution \in ReproBuilt(rpProblem, run.draws) :
                rpRuns' = [rpRuns EXCEPT ![r] =
                    [run EXCEPT !.bIdx = @ + 1,
                                !.draws = @ + 2,
                                !.terminations = Append(@, FALSE),
                                !.quotas = Append(@, q),
                                !.pop = IF should_add_solution(q, Len(run.pop))
                                        THEN population_add_solution(@, solution, rpProblem.max_size)
                                        ELSE @]]
    /\ UNCHANGED <<rpProblem, notReproVars>>

\* the build loop is over
ReproBuildDone ==
    \E r \in ReproRuns :
        /\ ReproTurn(r)
        /\ rpRuns[r].pc = "build"
        /\ rpRuns[r].bIdx >= build_range_end(rpProblem.initial_size)
        /\ rpRuns' = [rpRuns EXCEPT ![r].pc = "started"]
        /\ UNCHANGED <<rpProblem, notReproVars>>

\* create_refinement_ctx returns: the population after startup
ReproStarted ==
    \E r \in ReproRuns :
        /\ ReproTurn(r)
        /\ rpRuns[r].pc = "started"
        /\ rpRuns' = [rpRuns EXCEPT ![r].pc = "loop", ![r].hist = <<rpRuns[r].pop>>]
        /\ UNCHANGED <<rpProblem, notReproVars>>

\* one generation of the main loop: should_stop, then a child is built and offered
ReproGeneration(r, is_terminated, q) ==
    LET run == rpRuns[r] IN
    /\ ReproTurn(r)
    /\ run.pc = "loop"
    /\ IF should_stop(is_terminated, q) \/ run.gen >= MaxReproGenerations
       THEN rpRuns' = [rpRuns EXCEPT ![r] =
                [run EXCEPT !.pc = "done",
                            !.terminations = Append(@, is_terminated),
                            !.quotas = Append(@, q)]]
       ELSE \E solution \in ReproBuilt(rpProblem, run.draws) :
                LET pop == population_add_solution(run.pop, solution, rpProblem.max_size)
                IN  rpRuns' = [rpRuns EXCEPT ![r] =
                        [run EXCEPT !.gen = @ + 1,
                                    !.draws = @ + 2,
                                    !.terminations = Append(@, is_terminated),
                                    !.quotas = Append(@, q),
                                    !.pop = pop,
                                    !.hist = Append(@, pop)]]
    /\ UNCHANGED <<rpProblem, notReproVars>>

ReproNext ==
    \/ \E r \in ReproRuns, is_terminated \in BOOLEAN, q \in {"no", "yes"} : ReproBuild(r, is_terminated, q)
    \/ ReproBuildDone
    \/ ReproStarted
    \/ \E r \in ReproRuns, is_terminated \in BOOLEAN, q \in {"no", "yes"} : ReproGeneration(r, is_terminated, q)

(***************************************************************************)
(* Problem reader: create_constraint_pipeline and create_objective         *)
(***************************************************************************)
ApiObjectives == {"MinimizeCost", "MinimizeTours", "MinimizeUnassignedJobs", "BalanceMaxLoad", "BalanceActivities"}

\* api_problem.objectives: <<"absent">> is None, else primary followed by secondary
ApiObjectiveLists == {<<"absent">>} \cup UNION {[1..n -> ApiObjectives] : n \in 0..MaxApiObjectives}

\* what get_problem_properties derives, and the job dimensions it does not look at
ProblemProps ==
    [has_multi_dimen_capacity : BOOLEAN, has_breaks : BOOLEAN, has_skills : BOOLEAN,
     has_unreachable_locations : BOOLEAN, has_reload : BOOLEAN, priority : BOOLEAN,
     has_compatibility : BOOLEAN, has_group : BOOLEAN, objectives : ApiObjectiveLists]

add_capacity_module(constraint, props) ==
    Append(constraint,
           IF props.has_reload
           THEN IF props.has_multi_dimen_capacity THEN "capacity_multi_reload" ELSE "capacity_single_reload"
           ELSE IF props.has_multi_dimen_capacity THEN "capacity_multi" ELSE "capacity_single")

add_work_balance_module(constraint, props) ==
    Append(constraint, IF props.has_multi_dimen_capacity THEN "work_balance_multi" ELSE "work_balance_single")

\* one conditional add_module
AddIf(constraint, cond, module) == IF cond THEN Append(constraint, module) ELSE constraint

create_constraint_pipeline(props, has_locks) ==
    LET c1 == add_capacity_module(<<"transport">>, props)
        c2 == AddIf(c1, props.has_breaks, "breaks")
        c3 == AddIf(c2, props.has_skills, "skills")
        c4 == AddIf(c3, props.priority, "priority")
        c5 == AddIf(c4, has_locks, "locking")
    IN  AddIf(c5, props.has_unreachable_locations, "reachable")

\* map_objectives: the modules the objectives add, <<"panic">> at todo!()
RECURSIVE map_objectives(_, _, _, _)
map_objectives(constraint, objectives, i, props) ==
    IF i > Len(objectives) THEN constraint
    ELSE IF objectives[i] = "BalanceActivities" THEN <<"panic">>
    ELSE map_objectives(
            IF objectives[i] = "MinimizeTours" THEN Append(constraint, "fleet_usage")
            ELSE IF objectives[i] = "BalanceMaxLoad" THEN add_work_balance_module(constraint, props)
            ELSE constraint,
            objectives, i + 1, props)

create_objective(constraint, props) ==
    IF props.objectives # <<"absent">>
    THEN map_objectives(constraint, props.objectives, 1, props)
    ELSE Append(constraint, "fleet_usage")

PipeIdle ==
    /\ plProps = <<>>
    /\ plLocks = FALSE
    /\ plPipeline = <<"none">>

PipeInit ==
    /\ plProps \in ProblemProps
    /\ plLocks \in BOOLEAN
    /\ plPipeline = <<"none">>

\* map_to_problem: the pipeline is created, then create_objective adds to it
MapToProblem ==
    /\ plPipeline = <<"none">>
    /\ plPipeline' = create_objective(create_constraint_pipeline(plProps, plLocks), plProps)
    /\ UNCHANGED <<plProps, plLocks, notPipeVars>>

PipeNext == MapToProblem

(***************************************************************************)
(* CompatibilityModule::merge                                              *)
(***************************************************************************)
MergeOk(job) == [ok |-> TRUE, job |-> job, code |-> 0]

MergeErr(code) == [ok |-> FALSE, job |-> 0, code |-> code]

\* a plausible slip: a job without a value merges with any job
merge_untagged_any(source, candidate) ==
    IF get_job_compatibility(source) = "nil" \/ get_job_compatibility(candidate) = "nil"
    THEN MergeOk(source)
    ELSE IF get_job_compatibility(source) = get_job_compatibility(candidate) THEN MergeOk(source)
    ELSE MergeErr(CompatCode)

merge(source, candidate) ==
    IF get_job_compatibility(source) = "nil" /\ get_job_compatibility(candidate) = "nil"
    THEN MergeOk(source)
    ELSE IF /\ get_job_compatibility(source) # "nil"
            /\ get_job_compatibility(candidate) # "nil"
            /\ get_job_compatibility(source) = get_job_compatibility(candidate)
         THEN MergeOk(source)
    ELSE MergeErr(CompatCode)

NoMerge == [source |-> 0, candidate |-> 0, result |-> MergeErr(0), swapped |-> MergeErr(0)]

MergeIdle == mgCall = NoMerge

MergeInit == mgCall = NoMerge

\* merge(source, candidate), and merge(candidate, source) for comparison
Merge(source, candidate) ==
    /\ mgCall' = [source |-> source, candidate |-> candidate,
                  result |-> merge(source, candidate), swapped |-> merge(candidate, source)]
    /\ UNCHANGED notMergeVars

MergeNext == \E source, candidate \in CompatJobIds : Merge(source, candidate)

(***************************************************************************)
(* AllJobSelector::select                                                  *)
(***************************************************************************)
SelectJobs == 1..MaxSelectJobs

Range(seq) == {seq[i] : i \in 1..Len(seq)}

\* the orders a sequence of distinct jobs can be put in
Orders(jobs) == {p \in [1..Cardinality(jobs) -> jobs] : Range(p) = jobs}

\* slice::shuffle: every order of the same elements
shuffle(seq) == {p \in [1..Len(seq) -> Range(seq)] : \A i \in 1..Len(seq) : \E k \in 1..Len(seq) : p[k] = seq[i]}

\* a plausible slip: the iterator skips the first job
AllJobSelector_select_skip(required_jobs, shuffled) ==
    [required |-> shuffled, yielded |-> IF Len(shuffled) > 0 THEN Tail(shuffled) ELSE shuffled]

\* required.shuffle(rng), then required.iter().cloned()
AllJobSelector_select(required_jobs, shuffled) ==
    [required |-> shuffled, yielded |-> shuffled]

NoSelect == [called |-> FALSE, before |-> <<>>, yielded |-> <<>>]

JobsIdle ==
    /\ jsRequired = <<>>
    /\ jsIgnored = <<>>
    /\ jsLocked = {}
    /\ jsRoutes = <<>>
    /\ jsCall = NoSelect

\* every job is in exactly one of required, ignored, locked and the routes
JobsInit ==
    /\ \E part \in [SelectJobs -> {"required", "ignored", "locked", "route"}] :
          /\ jsRequired \in Orders({j \in SelectJobs : part[j] = "required"})
          /\ jsIgnored \in Orders({j \in SelectJobs : part[j] = "ignored"})
          /\ jsLocked = {j \in SelectJobs : part[j] = "locked"}
          /\ jsRoutes \in Orders({j \in SelectJobs : part[j] = "route"})
    /\ jsCall = NoSelect

\* AllJobSelector::select on the solution context
Select ==
    /\ \E shuffled \in shuffle(jsRequired) :
          LET selected == AllJobSelector_select(jsRequired, shuffled)
          IN  /\ jsRequired' = selected.required
              /\ jsCall' = [called |-> TRUE, before |-> jsRequired, yielded |-> selected.yielded]
    /\ UNCHANGED <<jsIgnored, jsLocked, jsRoutes, notJobsVars>>

JobsNext == Select

(***************************************************************************)
(* vrp-cli: get_solution_serialized                                        *)
(***************************************************************************)
\* FormatError::new(code, cause, action).to_json()
FormatError(code, cause, action) == [code |-> code, cause |-> cause, action |-> action]

\* Option<Solution> of Solver::solve: None, or a solution with its assigned jobs
SolveNone == [some |-> FALSE, assigned |-> {}, unassigned |-> {}]

SolveSome(jobs, assigned) == [some |-> TRUE, assigned |-> assigned, unassigned |-> jobs \ assigned]

ResultOk(value) == [ok |-> TRUE, value |-> value, err |-> FormatError("", "", "")]

ResultErr(err) == [ok |-> FALSE, value |-> SolveNone, err |-> err]

NoSerResult == [ok |-> FALSE, value |-> SolveNone, err |-> FormatError("none", "", "")]

\* write_pragmatic_json into the in-memory buffer: the solution as written
write_pragmatic_json(solution) == ResultOk(solution)

\* a plausible slip: a solution with unassigned jobs is reported as no solution
get_solution_serialized_partial(solved) ==
    IF ~solved.some \/ solved.unassigned # {}
    THEN ResultErr(FormatError("E0003", "cannot find any solution",
                               "please submit a bug and share original problem and routing matrix"))
    ELSE write_pragmatic_json(solved)

get_solution_serialized(solved) ==
    IF ~solved.some
    THEN ResultErr(FormatError("E0003", "cannot find any solution",
                               "please submit a bug and share original problem and routing matrix"))
    ELSE LET written == write_pragmatic_json(solved)
         IN  IF written.ok THEN ResultOk(written.value) ELSE written

SerIdle ==
    /\ srArgs = <<>>
    /\ srSolved = SolveNone
    /\ srPc = "idle"
    /\ srResult = NoSerResult

SerInit ==
    /\ srArgs \in [jobs : {1..n : n \in 0..MaxSerJobs}, generations : 1..MaxSerBudget, max_time : 1..MaxSerBudget]
    /\ srSolved = SolveNone
    /\ srPc = "solve"
    /\ srResult = NoSerResult

\* SolverBuilder ... .solve(problem): no solution, or one that may leave jobs unassigned
SerSolve ==
    /\ srPc = "solve"
    /\ srSolved' \in {SolveNone} \cup {SolveSome(srArgs.jobs, assigned) : assigned \in SUBSET srArgs.jobs}
    /\ srPc' = "serialize"
    /\ UNCHANGED <<srArgs, srResult, notSerVars>>

\* the rest of get_solution_serialized
SerReturn ==
    /\ srPc = "serialize"
    /\ srResult' = get_solution_serialized(srSolved)
    /\ srPc' = "done"
    /\ UNCHANGED <<srArgs, srSolved, notSerVars>>

SerNext == SerSolve \/ SerReturn

(***************************************************************************)
(* vrp-api: solve_problem and solve_handler                                *)
(***************************************************************************)
MAX_ITERATIONS == 100

None == [some |-> FALSE, value |-> 0]

Some(value) == [some |-> TRUE, value |-> value]

\* telemetry_config: evolution is absent, has no initial section, or has one
\* with alternatives.max_size; termination is absent or has max_generations
ApiEvolutions ==
    {[present |-> FALSE, initial |-> None], [present |-> TRUE, initial |-> None]}
        \cup {[present |-> TRUE, initial |-> Some(k)] : k \in 1..MaxApiSize}

ApiTerminations ==
    {[present |-> FALSE, max_generations |-> None], [present |-> TRUE, max_generations |-> None]}
        \cup {[present |-> TRUE, max_generations |-> Some(g)] : g \in 1..MaxApiGenerations}

ApiConfigs == [evolution : ApiEvolutions, termination : ApiTerminations]

ApiRequests ==
    [payload_ok : BOOLEAN, body_ok : BOOLEAN, problem_ok : BOOLEAN, config : ApiConfigs,
     builder_ok : BOOLEAN, build_ok : BOOLEAN, solve_ok : BOOLEAN, checker_ok : BOOLEAN]

\* the "// config" block of solve_problem
override_config(config) ==
    [evolution |->
        IF config.evolution.present /\ config.evolution.initial.some
        THEN [config.evolution EXCEPT !.initial = Some(1)]
        ELSE config.evolution,
     termination |->
        IF config.termination.present
        THEN [config.termination EXCEPT !.max_generations = Some(1)]
        ELSE config.termination]

\* the builder takes what the config carries
create_builder_from_config(config) ==
    [max_generations |-> config.termination.max_generations,
     initial_max_size |-> config.evolution.initial]

with_max_generations(builder, limit) == [builder EXCEPT !.max_generations = limit]

\* a plausible slip: the limit of the config is left in place
configure_solver_from_config(config) == create_builder_from_config(override_config(config))

\* the builder solve_problem hands to build()
configure_solver(config) ==
    with_max_generations(create_builder_from_config(override_config(config)), Some(MAX_ITERATIONS))

NoSolver == [configured |-> FALSE, max_generations |-> None, initial_max_size |-> None]

Configured(builder) ==
    [configured |-> TRUE, max_generations |-> builder.max_generations,
     initial_max_size |-> builder.initial_max_size]

\* write_pragmatic_json then deserialize_solution
get_pragmatic_solution(solution) == write_pragmatic_json(solution).value

HttpResponse(status, body) == [status |-> status, body |-> body]

\* a panic unwinds the handler: nothing is written to the connection
Panicked == HttpResponse(0, "none")

\* solve_problem: the solver's configuration and either a solution or a panic
solve_problem(request) ==
    IF ~request.problem_ok \/ ~request.builder_ok \/ ~request.build_ok
    THEN [solver |-> NoSolver, panicked |-> TRUE]
    ELSE [solver |-> Configured(configure_solver(request.config)),
          panicked |-> ~request.solve_ok \/ ~request.checker_ok]

\* solve_handler: `?` on a chunk or on the body answers with the error's
\* response, whose status the framework picks
solve_handler(request, error_status) ==
    IF ~request.payload_ok \/ ~request.body_ok
    THEN [solver |-> NoSolver, response |-> HttpResponse(error_status, "error")]
    ELSE LET solved == solve_problem(request)
         IN  [solver |-> solved.solver,
              response |-> IF solved.panicked THEN Panicked ELSE HttpResponse(200, "solution")]

NoResponse == HttpResponse(0, "pending")

ApiIdle ==
    /\ apiRequest = <<>>
    /\ apiSolver = NoSolver
    /\ apiResponse = HttpResponse(0, "idle")

ApiInit ==
    /\ apiRequest \in ApiRequests
    /\ apiSolver = NoSolver
    /\ apiResponse = NoResponse

SolveHandler ==
    /\ apiResponse = NoResponse
    /\ \E error_status \in {400, 500} :
        LET handled == solve_handler(apiRequest, error_status)
        IN  /\ apiSolver' = handled.solver
            /\ apiResponse' = handled.response
    /\ UNCHANGED <<apiRequest, notApiVars>>

ApiNext == SolveHandler

(***************************************************************************)
(* Compatibility module: removals, accept_route_state and evaluate_job     *)
(***************************************************************************)
NoEvaluate == [called |-> FALSE, state |-> "absent", job |-> 0, result |-> 0]

RouteIdle ==
    /\ rcCall = [called |-> FALSE, state |-> "idle", job |-> 0, result |-> 0]
    /\ rcAccepts = 0

RouteJobIds == 1..MaxRouteJobs
RouteIds == 1..MaxRouteRoutes

RouteInit ==
    /\ jobCompat \in [RouteJobIds -> OptCompat]
    /\ tours = [r \in RouteIds |-> <<>>]
    /\ routeState = [r \in RouteIds |-> "absent"]
    /\ required = RouteJobIds
    /\ rcCall = NoEvaluate
    /\ rcAccepts = 0

RemoveAt(seq, i) == SubSeq(seq, 1, i - 1) \o SubSeq(seq, i + 1, Len(seq))

\* a ruin step takes a job out of the tour; the cached state is not touched
\* until the pipeline calls accept_route_state
RemoveJob(r, i) ==
    /\ i \in 1..Len(tours[r])
    /\ tours' = [tours EXCEPT ![r] = RemoveAt(tours[r], i)]
    /\ required' = required \cup {tours[r][i]}
    /\ UNCHANGED <<jobCompat, routeState, notCompatVars>>

\* CompatibilityModule::accept_route_state on route r
AcceptRouteState(r) ==
    /\ routeState' = [routeState EXCEPT ![r] = accept_route_state(tours[r], routeState[r])]
    /\ rcAccepts' = 1 - rcAccepts
    /\ UNCHANGED <<jobCompat, tours, required, rcCall, notCompatRouteVars>>

\* CompatibilityHardRouteConstraint::evaluate_job on route r and job j
EvaluateJob(r, j) ==
    /\ rcCall' = [called |-> TRUE, state |-> routeState[r], job |-> j,
                  result |-> evaluate_job(routeState[r], j)]
    /\ UNCHANGED <<rcAccepts, notRouteVars>>

RouteNext ==
    \/ \E r \in RouteIds, j \in RouteJobIds : \E pos \in 0..Len(tours[r]) : InsertJob(r, j, pos)
    \/ \E r \in RouteIds : \E i \in 1..MaxRouteJobs : RemoveJob(r, i)
    \/ \E r \in RouteIds : AcceptRouteState(r)
    \/ \E r \in RouteIds, j \in RouteJobIds : EvaluateJob(r, j)

(***************************************************************************)
(* Problem reader: the objectives of create_objective and the cost value   *)
(***************************************************************************)
ObjectiveLists == UNION {[1..n -> ApiObjectives] : n \in 0..MaxObjectiveList}

\* the closure map_objectives: the core objectives pushed, the cost index
\* (counted from 0 along the api list) and whether todo!() was hit
RECURSIVE map_core_objectives(_, _, _)
map_core_objectives(objectives, i, acc) ==
    IF i > Len(objectives) THEN acc
    ELSE IF objectives[i] = "MinimizeCost"
    THEN map_core_objectives(objectives, i + 1,
            [acc EXCEPT !.core = Append(@, "TotalTransportCost"), !.cost_idx = Some(i - 1)])
    ELSE IF objectives[i] = "MinimizeTours"
    THEN map_core_objectives(objectives, i + 1, [acc EXCEPT !.core = Append(@, "TotalRoutes")])
    ELSE IF objectives[i] = "MinimizeUnassignedJobs"
    THEN map_core_objectives(objectives, i + 1, [acc EXCEPT !.core = Append(@, "TotalUnassignedJobs")])
    ELSE IF objectives[i] = "BalanceMaxLoad"
    THEN map_core_objectives(objectives, i + 1, acc)
    ELSE [acc EXCEPT !.panicked = TRUE]

\* idx.map(|idx| objectives.get(idx).unwrap())
get_unwrap(objectives, idx) ==
    IF ~idx.some THEN "None"
    ELSE IF idx.value < Len(objectives) THEN objectives[idx.value + 1]
    ELSE "panic"

\* the cost closure handed to MultiObjective::new; both arguments of `or`
\* are evaluated
cost_value(primary, secondary, primary_cost_idx, secondary_cost_idx) ==
    LET first == get_unwrap(primary, primary_cost_idx)
        second == get_unwrap(secondary, secondary_cost_idx)
    IN  IF first = "panic" \/ second = "panic" THEN "panic"
        ELSE IF first # "None" THEN first
        ELSE IF second # "None" THEN second
        ELSE "panic"

NoObjectives == [core |-> <<>>, cost_idx |-> None, panicked |-> FALSE]

create_multi_objective(api) ==
    LET primary == map_core_objectives(api.primary, 1, NoObjectives)
        secondary == map_core_objectives(api.secondary, 1, NoObjectives)
    IN  IF primary.panicked \/ secondary.panicked
        THEN [built |-> FALSE, primary |-> primary, secondary |-> secondary, cost |-> "panic"]
        ELSE [built |-> TRUE, primary |-> primary, secondary |-> secondary,
              cost |-> cost_value(primary.core, secondary.core, primary.cost_idx, secondary.cost_idx)]

NoMultiObjective == [built |-> FALSE, primary |-> NoObjectives, secondary |-> NoObjectives, cost |-> "pending"]

ObjIdle ==
    /\ obApi = <<>>
    /\ obResult = [built |-> FALSE, primary |-> NoObjectives, secondary |-> NoObjectives, cost |-> "idle"]

ObjInit ==
    /\ obApi \in [primary : ObjectiveLists, secondary : ObjectiveLists]
    /\ obResult = NoMultiObjective

\* create_objective, and the cost value read from the objective it returns
CreateObjective ==
    /\ obResult = NoMultiObjective
    /\ obResult' = create_multi_objective(obApi)
    /\ UNCHANGED <<obApi, notObjVars>>

ObjNext == CreateObjective

(***************************************************************************)
(* vrp-cli interop: get_routing_locations, convert_to_pragmatic and        *)
(* solve_pragmatic                                                         *)
(***************************************************************************)
InteropEntries == {"get_routing_locations", "convert_to_pragmatic", "solve_pragmatic"}

\* a call: the entry point; whether the bytes of the first string (problem or
\* format) and of each further string (inputs or matrices) are UTF-8; whether
\* reading (deserialization, validation or import) succeeds; whether the
\* solver finds a solution
InteropCalls ==
    [entry : InteropEntries,
     text_utf8 : BOOLEAN,
     inputs_utf8 : UNION {[1..n -> BOOLEAN] : n \in 0..MaxInteropInputs},
     read_ok : BOOLEAN,
     solved : BOOLEAN]

\* to_string: from_utf8(slice).unwrap()
to_string(is_utf8) == IF is_utf8 THEN "string" ELSE "panic"

\* inputs.iter().map(|p| to_string(*p)).collect()
RECURSIVE to_strings(_, _)
to_strings(inputs_utf8, i) ==
    IF i > Len(inputs_utf8) THEN "strings"
    ELSE IF to_string(inputs_utf8[i]) = "panic" THEN "panic"
    ELSE to_strings(inputs_utf8, i + 1)

\* call_back: the callbacks invoked for a Result
call_back(result) == IF result.ok THEN <<"success">> ELSE <<"failure">>

\* get_errors_serialized as the error of a Result
ErrorsSerialized == ResultErr(FormatError("errors", "cannot read", "check the input"))

\* get_locations_serialized: the unique locations written to the buffer
get_locations_serialized == ResultOk(SolveNone)

Returned(callbacks) == [pc |-> "returned", callbacks |-> callbacks]

InteropPanicked == [pc |-> "panicked", callbacks |-> <<>>]

get_routing_locations(call) ==
    IF to_string(call.text_utf8) = "panic" THEN InteropPanicked
    ELSE Returned(call_back(IF call.read_ok THEN get_locations_serialized ELSE ErrorsSerialized))

convert_to_pragmatic(call) ==
    IF to_string(call.text_utf8) = "panic" \/ to_strings(call.inputs_utf8, 1) = "panic"
    THEN InteropPanicked
    ELSE IF call.read_ok THEN Returned(<<"success">>)
    ELSE Returned(<<"failure">>)

solve_pragmatic(call) ==
    IF to_string(call.text_utf8) = "panic" \/ to_strings(call.inputs_utf8, 1) = "panic"
    THEN InteropPanicked
    ELSE Returned(call_back(
            IF call.read_ok
            THEN get_solution_serialized(IF call.solved THEN SolveSome({1}, {1}) ELSE SolveNone)
            ELSE ErrorsSerialized))

InteropIdle ==
    /\ ioCall = <<>>
    /\ ioCallbacks = <<>>
    /\ ioPc = "idle"

InteropInit ==
    /\ ioCall \in InteropCalls
    /\ ioCallbacks = <<>>
    /\ ioPc = "call"

\* one call of an entry point from the foreign caller
InteropCall ==
    /\ ioPc = "call"
    /\ LET done == IF ioCall.entry = "get_routing_locations" THEN get_routing_locations(ioCall)
                   ELSE IF ioCall.entry = "convert_to_pragmatic" THEN convert_to_pragmatic(ioCall)
                   ELSE solve_pragmatic(ioCall)
       IN  /\ ioPc' = done.pc
           /\ ioCallbacks' = done.callbacks
    /\ UNCHANGED <<ioCall, notInteropVars>>

InteropNext == InteropCall

(***************************************************************************)
(* Depot feature: the scenario of can_assign_single_depot and the schedule *)
(* of its tour                                                             *)
(***************************************************************************)
\* a plausible change of the scenario: the depot stop takes longer
DepotTest_long_stop ==
    [depot_x |-> 7, depot_duration |-> 3, tw |-> <<10, 15>>, jobs |-> <<3, 5>>, job_duration |-> 1]

\* the problem of the test: the depot place of the shift and the two delivery
\* jobs; every location lies on the x axis and the vehicle starts and ends at 0
DepotTest ==
    [depot_x |-> 7, depot_duration |-> 2, tw |-> <<10, 15>>, jobs |-> <<3, 5>>, job_duration |-> 1]

\* the solution the test expects
DepotExpected ==
    [stops |-> <<"departure", "depot", "job2", "job1", "arrival">>,
     departure |-> 3, driving |-> 14, serving |-> 4, waiting |-> 0, break_time |-> 0, duration |-> 18]

\* the test's problem and its neighbours: the depot and its window moved, the
\* window long enough to be reached
DepotScenarios ==
    {[DepotTest EXCEPT !.depot_x = x, !.tw = <<t, t + (DepotTest.tw[2] - DepotTest.tw[1])>>] :
        x \in (DepotTest.depot_x - 2)..MaxDepotX,
        t \in (MaxDepotX + 1 - (DepotTest.tw[2] - DepotTest.tw[1]))..MaxDepotStart}

Max(a, b) == IF a > b THEN a ELSE b

\* routing matrix of the test helpers: distance and duration between two
\* points of the x axis
travel(a, b) == Abs(a - b)

Stop(kind, x, duration) == [kind |-> kind, x |-> x, duration |-> duration]

JobName(j) == IF j = 1 THEN "job1" ELSE "job2"

\* a tour: departure, the depot stop, the jobs in the given order, arrival
DepotTour(scenario, order) ==
    <<Stop("departure", 0, 0), Stop("depot", scenario.depot_x, scenario.depot_duration)>>
        \o [i \in 1..Len(order) |-> Stop(JobName(order[i]), scenario.jobs[order[i]], scenario.job_duration)]
        \o <<Stop("arrival", 0, 0)>>

RECURSIVE TourDistance(_, _)
TourDistance(tour, i) ==
    IF i >= Len(tour) THEN 0 ELSE travel(tour[i].x, tour[i + 1].x) + TourDistance(tour, i + 1)

\* the tours of least distance, which with the default costs are the tours of least cost
BestTours(scenario) ==
    LET tours_ == {DepotTour(scenario, order) : order \in Orders(1..Len(scenario.jobs))}
    IN  {t \in tours_ : \A u \in tours_ : TourDistance(t, 1) <= TourDistance(u, 1)}

\* the departure is postponed as far as the first time window allows
departure_time(scenario) == Max(0, scenario.tw[1] - travel(0, scenario.depot_x))

\* the schedule of one stop, given the schedule of the stop before it
schedule_stop(scenario, stop, prev) ==
    LET arrival == prev.departure + travel(prev.x, stop.x)
        start == IF stop.kind = "depot" THEN Max(arrival, scenario.tw[1]) ELSE arrival
    IN  [kind |-> stop.kind, x |-> stop.x, arrival |-> arrival,
         waiting |-> start - arrival, departure |-> start + stop.duration,
         serving |-> stop.duration, distance |-> prev.distance + travel(prev.x, stop.x)]

schedule_departure(scenario) ==
    [kind |-> "departure", x |-> 0, arrival |-> 0, waiting |-> 0,
     departure |-> departure_time(scenario), serving |-> 0, distance |-> 0]

NoScenario == [depot_x |-> 0, depot_duration |-> 0, tw |-> <<0, 0>>, jobs |-> <<>>, job_duration |-> 0]

DepotIdle ==
    /\ dpScenario = NoScenario
    /\ dpTour = <<>>
    /\ dpStops = <<>>

DepotInit ==
    /\ dpScenario \in DepotScenarios
    /\ dpTour = <<>>
    /\ dpStops = <<>>

\* solve_with_metaheuristic returns a tour of least cost
DepotSolve ==
    /\ dpTour = <<>>
    /\ dpTour' \in BestTours(dpScenario)
    /\ dpStops' = <<schedule_departure(dpScenario)>>
    /\ UNCHANGED <<dpScenario, notDepotVars>>

\* the next stop of the tour is scheduled
DepotVisit ==
    /\ dpTour # <<>>
    /\ Len(dpStops) < Len(dpTour)
    /\ dpStops' = Append(dpStops, schedule_stop(dpScenario, dpTour[Len(dpStops) + 1], dpStops[Len(dpStops)]))
    /\ UNCHANGED <<dpScenario, dpTour, notDepotVars>>

DepotNext == DepotSolve \/ DepotVisit

(***************************************************************************)
(* Specifications                                                          *)
(***************************************************************************)
InitCompat == CompatInit /\ EvoIdle /\ VcIdle /\ CmpIdle /\ EvalIdle /\ SelIdle /\ ReproIdle /\ PipeIdle /\ MergeIdle /\ JobsIdle /\ SerIdle /\ ApiIdle /\ RouteIdle /\ ObjIdle /\ InteropIdle /\ DepotIdle

SpecCompat == InitCompat /\ [][CompatNext]_vars

InitEvo == EvoInit /\ CompatIdle /\ VcIdle /\ CmpIdle /\ EvalIdle /\ SelIdle /\ ReproIdle /\ PipeIdle /\ MergeIdle /\ JobsIdle /\ SerIdle /\ ApiIdle /\ RouteIdle /\ ObjIdle /\ InteropIdle /\ DepotIdle

SpecEvo == InitEvo /\ [][EvoNext]_vars

InitVc == VcInit /\ CompatIdle /\ EvoIdle /\ CmpIdle /\ EvalIdle /\ SelIdle /\ ReproIdle /\ PipeIdle /\ MergeIdle /\ JobsIdle /\ SerIdle /\ ApiIdle /\ RouteIdle /\ ObjIdle /\ InteropIdle /\ DepotIdle

SpecVc == InitVc /\ [][VcNext]_vars

InitFloat == FloatInit /\ CompatIdle /\ EvoIdle /\ VcIdle /\ EvalIdle /\ SelIdle /\ ReproIdle /\ PipeIdle /\ MergeIdle /\ JobsIdle /\ SerIdle /\ ApiIdle /\ RouteIdle /\ ObjIdle /\ InteropIdle /\ DepotIdle

SpecFloat == InitFloat /\ [][FloatNext]_vars

InitDom == DomInit /\ CompatIdle /\ EvoIdle /\ VcIdle /\ EvalIdle /\ SelIdle /\ ReproIdle /\ PipeIdle /\ MergeIdle /\ JobsIdle /\ SerIdle /\ ApiIdle /\ RouteIdle /\ ObjIdle /\ InteropIdle /\ DepotIdle

SpecDom == InitDom /\ [][DomNext]_vars

InitEval == EvalInit /\ CompatIdle /\ EvoIdle /\ VcIdle /\ CmpIdle /\ SelIdle /\ ReproIdle /\ PipeIdle /\ MergeIdle /\ JobsIdle /\ SerIdle /\ ApiIdle /\ RouteIdle /\ ObjIdle /\ InteropIdle /\ DepotIdle

SpecEval == InitEval /\ [][EvalNext]_vars

InitSel == SelInit /\ CompatIdle /\ EvoIdle /\ VcIdle /\ CmpIdle /\ EvalIdle /\ ReproIdle /\ PipeIdle /\ MergeIdle /\ JobsIdle /\ SerIdle /\ ApiIdle /\ RouteIdle /\ ObjIdle /\ InteropIdle /\ DepotIdle

SpecSel == InitSel /\ [][SelNext]_vars

InitRepro == ReproInit /\ CompatIdle /\ EvoIdle /\ VcIdle /\ CmpIdle /\ EvalIdle /\ SelIdle /\ PipeIdle /\ MergeIdle /\ JobsIdle /\ SerIdle /\ ApiIdle /\ RouteIdle /\ ObjIdle /\ InteropIdle /\ DepotIdle

SpecRepro == InitRepro /\ [][ReproNext]_vars

InitPipe == PipeInit /\ CompatIdle /\ EvoIdle /\ VcIdle /\ CmpIdle /\ EvalIdle /\ SelIdle /\ ReproIdle /\ MergeIdle /\ JobsIdle /\ SerIdle /\ ApiIdle /\ RouteIdle /\ ObjIdle /\ InteropIdle /\ DepotIdle

SpecPipe == InitPipe /\ [][PipeNext]_vars

InitMerge == MergeInit /\ CompatInit /\ EvoIdle /\ VcIdle /\ CmpIdle /\ EvalIdle /\ SelIdle /\ ReproIdle /\ PipeIdle /\ JobsIdle /\ SerIdle /\ ApiIdle /\ RouteIdle /\ ObjIdle /\ InteropIdle /\ DepotIdle

SpecMerge == InitMerge /\ [][MergeNext]_vars

InitJobs == JobsInit /\ CompatIdle /\ EvoIdle /\ VcIdle /\ CmpIdle /\ EvalIdle /\ SelIdle /\ ReproIdle /\ PipeIdle /\ MergeIdle /\ SerIdle /\ ApiIdle /\ RouteIdle /\ ObjIdle /\ InteropIdle /\ DepotIdle

SpecJobs == InitJobs /\ [][JobsNext]_vars

InitSer == SerInit /\ CompatIdle /\ EvoIdle /\ VcIdle /\ CmpIdle /\ EvalIdle /\ SelIdle /\ ReproIdle /\ PipeIdle /\ MergeIdle /\ JobsIdle /\ ApiIdle /\ RouteIdle /\ ObjIdle /\ InteropIdle /\ DepotIdle

SpecSer == InitSer /\ [][SerNext]_vars

InitApi == ApiInit /\ CompatIdle /\ EvoIdle /\ VcIdle /\ CmpIdle /\ EvalIdle /\ SelIdle /\ ReproIdle /\ PipeIdle /\ MergeIdle /\ JobsIdle /\ SerIdle /\ RouteIdle /\ ObjIdle /\ InteropIdle /\ DepotIdle

SpecApi == InitApi /\ [][ApiNext]_vars

InitRoute == RouteInit /\ EvoIdle /\ VcIdle /\ CmpIdle /\ EvalIdle /\ SelIdle /\ ReproIdle /\ PipeIdle /\ MergeIdle /\ JobsIdle /\ SerIdle /\ ApiIdle /\ ObjIdle /\ InteropIdle /\ DepotIdle

SpecRoute == InitRoute /\ [][RouteNext]_vars

InitObj == ObjInit /\ CompatIdle /\ EvoIdle /\ VcIdle /\ CmpIdle /\ EvalIdle /\ SelIdle /\ ReproIdle /\ PipeIdle /\ MergeIdle /\ JobsIdle /\ SerIdle /\ ApiIdle /\ RouteIdle /\ InteropIdle /\ DepotIdle

SpecObj == InitObj /\ [][ObjNext]_vars

InitInterop == InteropInit /\ CompatIdle /\ EvoIdle /\ VcIdle /\ CmpIdle /\ EvalIdle /\ SelIdle /\ ReproIdle /\ PipeIdle /\ MergeIdle /\ JobsIdle /\ SerIdle /\ ApiIdle /\ RouteIdle /\ ObjIdle /\ DepotIdle

SpecInterop == InitInterop /\ [][InteropNext]_vars

InitDepot == DepotInit /\ CompatIdle /\ EvoIdle /\ VcIdle /\ CmpIdle /\ EvalIdle /\ SelIdle /\ ReproIdle /\ PipeIdle /\ MergeIdle /\ JobsIdle /\ SerIdle /\ ApiIdle /\ RouteIdle /\ ObjIdle /\ InteropIdle

SpecDepot == InitDepot /\ [][DepotNext]_vars

(***************************************************************************)
(* Claims                                                                  *)
(***************************************************************************)
\* C1: after any sequence of guarded insertions, each followed by
\* accept_insertion, no route holds two jobs whose compatibility values differ.
C1_NoMixedCompatibility ==
    \A r \in DOMAIN tours :
        \A i, k \in 1..Len(tours[r]) :
            (jobCompat[tours[r][i]] # "nil" /\ jobCompat[tours[r][k]] # "nil")
                => jobCompat[tours[r][i]] = jobCompat[tours[r][k]]

\* a route holds two tagged jobs while a job of the other tag sits in another route
C1_Witness ==
    \E r, s \in DOMAIN tours :
        /\ r # s
        /\ Cardinality({i \in 1..Len(tours[r]) : jobCompat[tours[r][i]] = "a"}) >= 2
        /\ \E k \in 1..Len(tours[s]) : jobCompat[tours[s][k]] = "b"


EvEvents(op, kind, idx) ==
    {n \in 1..Len(events) : events[n].op = op /\ events[n].kind = kind /\ events[n].idx = idx}

StartupReturned == pc = "done"

\* C2 as stated: when create_refinement_ctx returns, the population holds at
\* least initial.size solutions or the termination predicate returned true.
C2_Original ==
    StartupReturned => (popSize >= simulator.config.initial_size \/ terminated)

\* C2 amended: when create_refinement_ctx returns, the population holds at least
\* initial.size solutions, or termination returned true, or a built solution was
\* skipped because the quota was reached.
C2_StartupFills ==
    StartupReturned =>
        \/ popSize >= simulator.config.initial_size
        \/ terminated
        \/ \E n \in 1..Len(events) :
              /\ events[n].kind = "built"
              /\ events[n].op = "log_skip"
              /\ events[n].q = "yes"

\* startup returned with a full population that the build loop has filled
C2_Witness ==
    /\ StartupReturned
    /\ ~terminated
    /\ popSize = simulator.config.initial_size
    /\ popSize = 2
    /\ EvEvents("add", "built", 1) # {}

\* C3: EvolutionSimulator::new returns an error and builds no simulator exactly
\* when initial.size < 1, initial.size > max_size or there is no initial
\* method; otherwise it returns Ok with the configuration unchanged.
C3_NewValidates ==
    pc # "new" =>
        /\ (~simulator.ok) <=>
              (cfg.initial_size < 1 \/ cfg.initial_size > cfg.max_size \/ cfg.n_methods = 0)
        /\ simulator.ok => (simulator.config = cfg /\ simulator.err = "")
        /\ (~simulator.ok) => (simulator.config = NoConfig /\ simulator.err # "")

\* new accepted the boundary configuration initial.size = max_size
C3_Witness ==
    /\ pc = "start"
    /\ simulator.ok
    /\ cfg.initial_size = cfg.max_size
    /\ cfg.n_methods = 1

\* C4: should_stop returns true exactly when the termination predicate reports
\* termination or a quota is present and reached; an absent quota counts as
\* not reached.
C4_ShouldStop ==
    stopCall.called =>
        (stopCall.result <=>
            (stopCall.is_terminated \/ (stopCall.quota # "absent" /\ stopCall.quota = "yes")))

\* should_stop answered false with no quota and no termination
C4_Witness ==
    /\ stopCall.called
    /\ ~stopCall.is_terminated
    /\ stopCall.quota = "absent"
    /\ ~stopCall.result

ProvidedLoopOver == pc \in {"build", "finish", "done"}

\* C5 as stated: every provided individual, whatever their number, is passed
\* to population.add exactly once unless the quota has been reached.
C5_Original ==
    ProvidedLoopOver =>
        \A i \in 0..(cfg.n_individuals - 1) :
            \/ Cardinality(EvEvents("add", "provided", i)) = 1
            \/ \E n \in EvEvents("log_skip", "provided", i) : events[n].q = "yes"

\* C5 amended: each of the first initial.size provided individuals is looked at
\* once, in the order given, and is passed to population.add exactly once
\* unless the quota is reached (then it is skipped); the provided individuals
\* beyond initial.size are never offered.
C5_ProvidedOffered ==
    ProvidedLoopOver =>
        /\ \A i \in 0..(cfg.n_individuals - 1) :
              LET adds == EvEvents("add", "provided", i)
                  skips == EvEvents("log_skip", "provided", i)
              IN  IF i < cfg.initial_size
                  THEN /\ Cardinality(adds) + Cardinality(skips) = 1
                       /\ \A n \in skips : events[n].q = "yes"
                  ELSE adds = {} /\ skips = {}
        /\ \A n, m \in 1..Len(events) :
              (/\ n < m
               /\ events[n].kind = "provided" /\ events[m].kind = "provided"
               /\ events[n].op \in {"add", "log_skip"} /\ events[m].op \in {"add", "log_skip"})
                  => events[n].idx < events[m].idx

\* three individuals were provided for initial.size = 2: two were offered
C5_Witness ==
    /\ ProvidedLoopOver
    /\ cfg.n_individuals = 3
    /\ cfg.initial_size = 2
    /\ EvEvents("add", "provided", 0) # {}
    /\ EvEvents("add", "provided", 1) # {}


\* the state right after a call of update_and_check
VcJustCalled == vcCalled /\ vcLast.called

\* update_and_check was called once in each of the last sample generations
VcConsecutive ==
    /\ vcLast.generation >= vcSample - 1
    /\ \A g \in (vcLast.generation - vcSample + 1)..vcLast.generation : vcHist[g + 1] >= 0

\* the costs passed in the last sample generations, oldest first
VcLastCosts == [i \in 1..vcSample |-> vcHist[vcLast.generation - vcSample + 1 + i]]

RECURSIVE IntSum(_, _)
IntSum(f, S) == IF S = {} THEN 0 ELSE LET x == CHOOSE y \in S : TRUE IN f[x] + IntSum(f, S \ {x})

\* stddev(x)/mean(x) < n/d for the corrected sample standard deviation, in
\* integers: with S the sum and Q the sum of (N*x_i - S)^2, stddev^2 is
\* Q/(N^2*(N-1)) and mean^2 is S^2/N^2. The ratio is undefined, and not below
\* any threshold, for N = 1 and for a zero mean.
CvBelow(x, t) ==
    LET N == Len(x)
        S == IntSum(x, 1..N)
        Q == IntSum([i \in 1..N |-> (N * x[i] - S) * (N * x[i] - S)], 1..N)
    IN  /\ N >= 2
        /\ S # 0
        /\ t[1] > 0
        /\ Q * t[2] * t[2] < t[1] * t[1] * S * S * (N - 1)

\* C6: once update_and_check has been called in each of the last sample
\* generations, it returns true iff stddev(x)/mean(x) < threshold for the last
\* sample costs x, stddev being the corrected sample standard deviation.
C6_VariationTrigger ==
    (VcJustCalled /\ VcConsecutive) => (vcLast.result <=> CvBelow(VcLastCosts, vcThreshold))

\* the predicate fired on a window of three unequal costs that has wrapped
C6_Witness ==
    /\ VcJustCalled
    /\ VcConsecutive
    /\ vcLast.result
    /\ vcSample = 3
    /\ vcLast.generation >= 3
    /\ VcLastCosts[1] # VcLastCosts[2]

\* C7: update_and_check at generation g writes the cost into slot g mod N of
\* the window and leaves the other slots and the length N unchanged; after
\* calls at N consecutive generations the window holds exactly the last N costs.
C7_WindowFrame ==
    VcJustCalled =>
        /\ Len(vcCosts) = vcSample
        /\ vcLast.before # <<>> => Len(vcLast.before) = vcSample
        /\ vcCosts[(vcLast.generation % vcSample) + 1] = vcLast.cost
        /\ \A i \in 1..vcSample :
              i # (vcLast.generation % vcSample) + 1
                  => vcCosts[i] = (IF vcLast.before = <<>> THEN 0 ELSE vcLast.before[i])
        /\ VcConsecutive =>
              \A g \in (vcLast.generation - vcSample + 1)..vcLast.generation :
                  vcCosts[(g % vcSample) + 1] = vcHist[g + 1]

\* a window of three non-zero costs written after a skipped generation
C7_Witness ==
    /\ VcJustCalled
    /\ VcConsecutive
    /\ vcSample = 3
    /\ vcLast.generation = 4
    /\ vcHist[2] = -1
    /\ \A i \in 1..3 : vcCosts[i] > 0


\* C8: dominance_order(a, b) is Less exactly when a is no worse than b on every
\* objective and strictly better on at least one, Greater exactly when b is so
\* related to a, and Equal in every other case.
FitBetter(x, y) == x.k # "nan" /\ (y.k = "nan" \/ x.n < y.n)

FitNoWorse(x, y) == ~FitBetter(y, x)

Dominates(a, b) ==
    /\ \A i \in 1..Len(a) : FitNoWorse(a[i], b[i])
    /\ \E i \in 1..Len(a) : FitBetter(a[i], b[i])

C8_DominanceOrder ==
    dOrd # <<>> =>
        \A p \in Pairs :
            LET a == dIn[p[1]]
                b == dIn[p[2]]
            IN  /\ dOrd[p] = "Less" <=> Dominates(a, b)
                /\ dOrd[p] = "Greater" <=> Dominates(b, a)
                /\ dOrd[p] = "Equal" <=> (~Dominates(a, b) /\ ~Dominates(b, a))

\* a pair better on one objective and worse on the other was ordered Equal
C8_Witness ==
    /\ dOrd # <<>>
    /\ Len(dIn[1]) = 2
    /\ FitBetter(dIn[1][1], dIn[2][1])
    /\ FitBetter(dIn[2][2], dIn[1][2])
    /\ dOrd[<<1, 2>>] = "Equal"
    /\ dOrd[<<1, 3>>] = "Less"

\* C9: compare_floats is a total order on floats including NaN and the
\* infinities: reflexive, antisymmetric (the reverse for swapped arguments),
\* transitive; NaN equals NaN and is greater than every other value; on the
\* other values it is the numeric order.
Reverse(o) == IF o = "Less" THEN "Greater" ELSE IF o = "Greater" THEN "Less" ELSE o

\* the position of a non-NaN value on the extended number line
Extended(x) == IF x.k = "ninf" THEN -(MaxFloat + 1) ELSE IF x.k = "pinf" THEN MaxFloat + 1 ELSE x.n

C9_TotalOrder ==
    fOrd # <<>> =>
        /\ \A p \in Pairs : fOrd[p] \in {"Less", "Equal", "Greater"}
        /\ \A i \in Triple : fOrd[<<i, i>>] = "Equal"
        /\ \A i, j \in Triple : fOrd[<<i, j>>] = Reverse(fOrd[<<j, i>>])
        /\ \A i, j, k \in Triple :
              (fOrd[<<i, j>>] # "Greater" /\ fOrd[<<j, k>>] # "Greater")
                  => /\ fOrd[<<i, k>>] # "Greater"
                     /\ (fOrd[<<i, j>>] = "Less" \/ fOrd[<<j, k>>] = "Less") => fOrd[<<i, k>>] = "Less"
        /\ \A i, j \in Triple :
              /\ (fIn[i].k = "nan" /\ fIn[j].k = "nan") => fOrd[<<i, j>>] = "Equal"
              /\ (fIn[i].k = "nan" /\ fIn[j].k # "nan") => fOrd[<<i, j>>] = "Greater"
              /\ (fIn[i].k # "nan" /\ fIn[j].k # "nan") =>
                    /\ fOrd[<<i, j>>] = "Less" <=> Extended(fIn[i]) < Extended(fIn[j])
                    /\ fOrd[<<i, j>>] = "Equal" <=> Extended(fIn[i]) = Extended(fIn[j])

\* a number, +infinity and NaN were compared: number < +infinity < NaN
C9_Witness ==
    /\ fOrd # <<>>
    /\ fIn[1].k = "num"
    /\ fIn[2].k = "pinf"
    /\ fIn[3].k = "nan"
    /\ fOrd[<<1, 2>>] = "Less"
    /\ fOrd[<<2, 3>>] = "Less"
    /\ fOrd[<<3, 1>>] = "Greater"


\* C10: for the same jobs, routes and per-<<job, route>> insertion results, the
\* fold over the jobs and the fold over the routes of evaluate_all both return
\* a Failure or both return a Success of the same cost.
EvalBoth == evResult # <<>> /\ evResult[TRUE] # NoResult /\ evResult[FALSE] # NoResult

C10_FoldingsEquivalent ==
    EvalBoth =>
        /\ evResult[TRUE].kind = evResult[FALSE].kind
        /\ evResult[TRUE].kind = "Success" => evResult[TRUE].cost = evResult[FALSE].cost

\* both foldings ran over two jobs and two routes and returned a Success of
\* the same cost for different jobs
C10_Witness ==
    /\ EvalBoth
    /\ evJobs = 2
    /\ evRoutes = 2
    /\ evResult[TRUE].kind = "Success"
    /\ evResult[FALSE].kind = "Success"
    /\ evResult[TRUE].job # evResult[FALSE].job
    /\ \E c \in DOMAIN evOutcome : ~evOutcome[c].found


\* C11: select_insertion is commutative: for every pair of insertion results a
\* and b, two successes of equal cost and two failures included,
\* select_insertion(a, b) and select_insertion(b, a) yield the same result.
C11_Commutative == slOut # <<>> => slOut[1] = slOut[2]

\* C12: with BestResultSelector, evaluate_all returns a Success whose cost is the
\* minimum over the Success results of all <<job, route>> pairs, and a Failure
\* only when no pair yields a Success (so also when there is no job or no route).
EvalFound == {c \in DOMAIN evOutcome : evOutcome[c].found}

C12_BestOfAll ==
    evResult # <<>> =>
        \A flip \in BOOLEAN :
            evResult[flip] # NoResult =>
                IF EvalFound = {}
                THEN evResult[flip].kind = "Failure"
                ELSE /\ evResult[flip].kind = "Success"
                     /\ \A c \in EvalFound : evResult[flip].cost <= evOutcome[c].cost
                     /\ <<evResult[flip].job, evResult[flip].route>> \in EvalFound
                     /\ evOutcome[<<evResult[flip].job, evResult[flip].route>>].cost = evResult[flip].cost

\* the fold over the jobs returned the cheapest of three pairs that succeed
\* with two different costs, the cheapest not being the first pair
C12_Witness ==
    /\ evResult # <<>>
    /\ evResult[TRUE] # NoResult
    /\ evJobs = 2
    /\ evRoutes = 2
    /\ Cardinality(EvalFound) = 3
    /\ evOutcome[<<1, 1>>].cost = 2
    /\ evResult[TRUE].kind = "Success"
    /\ evResult[TRUE].cost = 1

\* C13: select_insertion applied to one Success and one Failure returns the
\* Success, for both selectors, whatever the argument order, the cost, the
\* sampled noise and the failure's stopped flag.
C13_SuccessBeatsFailure ==
    (slOut # <<>> /\ slLeft.kind = "Success" /\ slRight.kind = "Failure")
        => (slOut[1] = slLeft /\ slOut[2] = slLeft)

\* the noise selector was handed a Success and a stopped Failure with noise
\* sampled, and returned the Success for both orders
C13_Witness ==
    /\ slOut # <<>>
    /\ slSelector = "noise"
    /\ slLeft.kind = "Success"
    /\ slRight.kind = "Failure"
    /\ slRight.stopped
    /\ slNoise[1] # 2
    /\ slOut = <<slLeft, slLeft>>


\* C14: two runs with the same problem, configuration and RNG seed hold
\* identical population contents after startup and after every generation.
ReproBothDone == rpRuns # <<>> /\ rpRuns[1].pc = "done" /\ rpRuns[2].pc = "done"

ReproSamePolls ==
    /\ rpRuns[1].quotas = rpRuns[2].quotas
    /\ rpRuns[1].terminations = rpRuns[2].terminations

PipeBuilt == plPipeline # <<"none">> /\ plPipeline # <<"panic">>

PipeHas(module) == \E i \in 1..Len(plPipeline) : plPipeline[i] = module

PipeCapacity == {i \in 1..Len(plPipeline) :
                    plPipeline[i] \in {"capacity_single", "capacity_multi", "capacity_single_reload", "capacity_multi_reload"}}

PipeUses(objective) ==
    plProps.objectives # <<"absent">> /\ \E i \in 1..Len(plProps.objectives) : plProps.objectives[i] = objective

PipeStandard ==
    /\ plPipeline[1] = "transport"
    /\ \A i \in 2..Len(plPipeline) : plPipeline[i] # "transport"
    /\ Cardinality(PipeCapacity) = 1
    /\ PipeHas("capacity_multi") \/ PipeHas("capacity_multi_reload") <=> plProps.has_multi_dimen_capacity
    /\ PipeHas("capacity_single_reload") \/ PipeHas("capacity_multi_reload") <=> plProps.has_reload
    /\ PipeHas("breaks") <=> plProps.has_breaks
    /\ PipeHas("skills") <=> plProps.has_skills
    /\ PipeHas("priority") <=> plProps.priority
    /\ PipeHas("locking") <=> plLocks
    /\ PipeHas("reachable") <=> plProps.has_unreachable_locations
    /\ PipeHas("fleet_usage") <=> (plProps.objectives = <<"absent">> \/ PipeUses("MinimizeTours"))
    /\ PipeHas("work_balance_single") \/ PipeHas("work_balance_multi") <=> PipeUses("BalanceMaxLoad")

C15_StandardModules ==
    PipeBuilt =>
        /\ PipeStandard
        /\ PipeHas("compatibility") <=> plProps.has_compatibility
        /\ PipeHas("group") <=> plProps.has_group


\* C16: merge(source, candidate) returns the source job when both jobs have no
\* compatibility value or both have the same value, and the module's refusal
\* code in every other case; whether the merge is accepted does not depend on
\* the order of the two arguments.
C16_Merge ==
    mgCall.source # 0 =>
        LET s == jobCompat[mgCall.source]
            c == jobCompat[mgCall.candidate]
        IN  /\ s = c => mgCall.result = MergeOk(mgCall.source)
            /\ s # c => mgCall.result = MergeErr(CompatCode)
            /\ mgCall.result.ok = mgCall.swapped.ok

\* a tagged source and an untagged candidate were refused in both orders
C16_Witness ==
    /\ mgCall.source # 0
    /\ jobCompat[mgCall.source] = "a"
    /\ jobCompat[mgCall.candidate] = "nil"
    /\ mgCall.result = MergeErr(CompatCode)
    /\ ~mgCall.swapped.ok


\* C17: AllJobSelector.select changes the solution context only by reordering
\* required: required is a permutation of its previous content, routes,
\* ignored and locked jobs are unchanged, the iterator yields each required job
\* exactly once, and every job stays in exactly one set of the partition.
IsPermutation(p, q) ==
    /\ Len(p) = Len(q)
    /\ \A j \in Range(p) \cup Range(q) :
          Cardinality({i \in 1..Len(p) : p[i] = j}) = Cardinality({i \in 1..Len(q) : q[i] = j})

JobsPartition ==
    \A j \in SelectJobs :
        Cardinality({i \in 1..Len(jsRequired) : jsRequired[i] = j})
            + Cardinality({i \in 1..Len(jsIgnored) : jsIgnored[i] = j})
            + Cardinality({i \in 1..Len(jsRoutes) : jsRoutes[i] = j})
            + (IF j \in jsLocked THEN 1 ELSE 0) = 1

C17_SelectFrame ==
    /\ [](jsCall.called =>
            /\ IsPermutation(jsRequired, jsCall.before)
            /\ IsPermutation(jsCall.yielded, jsRequired)
            /\ JobsPartition)
    /\ [][<<jsIgnored, jsLocked, jsRoutes>>' = <<jsIgnored, jsLocked, jsRoutes>>]_vars

\* select reordered three required jobs
C17_Witness ==
    /\ jsCall.called
    /\ Len(jsRequired) = 3
    /\ jsRequired # jsCall.before
    /\ jsCall.yielded = jsRequired


ApiHandled == apiResponse # NoResponse

\* C18: whatever max_generations and initial.alternatives.max_size a request
\* carries, and also when its termination or evolution section is absent, the
\* solver is configured with a maximum of 100 generations and, when an initial
\* section exists, with alternatives.max_size = 1.
C18_Overrides ==
    (ApiHandled /\ apiSolver.configured) =>
        /\ apiSolver.max_generations = Some(100)
        /\ (apiRequest.config.evolution.present /\ apiRequest.config.evolution.initial.some)
               => apiSolver.initial_max_size = Some(1)

\* a request asking for 2 generations and 2 alternatives was solved
C18_Witness ==
    /\ ApiHandled
    /\ apiSolver.configured
    /\ apiRequest.config.termination.max_generations = Some(2)
    /\ apiRequest.config.evolution.initial = Some(2)
    /\ apiSolver.max_generations = Some(100)
    /\ apiSolver.initial_max_size = Some(1)
    /\ apiResponse.status = 200

ApiBadInput ==
    \/ ~apiRequest.payload_ok
    \/ ~apiRequest.body_ok
    \/ ~apiRequest.problem_ok
    \/ ~apiRequest.builder_ok
    \/ ~apiRequest.build_ok

ApiInternalFailure == ~ApiBadInput /\ (~apiRequest.solve_ok \/ ~apiRequest.checker_ok)

\* C20: the handler answers every request: a 4xx status when the input is bad,
\* a 5xx status on an internal failure, a 200 with the solution otherwise; no
\* request ends without a response.
C20_AlwaysAnswers ==
    ApiHandled =>
        /\ apiResponse.status # 0
        /\ ApiBadInput => apiResponse.status \in 400..499
        /\ ApiInternalFailure => apiResponse.status \in 500..599
        /\ (~ApiBadInput /\ ~ApiInternalFailure)
               => (apiResponse.status = 200 /\ apiResponse.body = "solution")


InStartup == pc \in {"provided", "build", "finish", "done"}

\* the events in which a solution was offered: passed to add, or skipped
EvOffers == {n \in 1..Len(events) : events[n].op \in {"add", "log_skip"}}

QuotaStayedReached == quota = "yes" /\ \A n \in 1..Len(events) : events[n].q = "yes"

\* C22: should_add_solution is true iff the population is empty or the quota is
\* not reached; so if the quota is reached when startup begins and stays
\* reached, exactly the first offered solution is added to the empty
\* population, every later one is skipped, and the population is not left
\* empty once a solution was offered.
C22_FirstOfferAdded ==
    InStartup =>
        /\ \A n \in EvOffers :
              events[n].op = "add" <=>
                  (events[n].q # "yes" \/ \A m \in EvOffers : m < n => events[m].op # "add")
        /\ (QuotaStayedReached /\ EvOffers # {}) =>
              /\ popSize = 1
              /\ \A n \in EvOffers :
                    events[n].op = "add" <=> (\A m \in EvOffers : n <= m)

\* under a quota reached all along, the first provided solution was added and
\* a later provided one and a built one were skipped
C22_Witness ==
    /\ StartupReturned
    /\ QuotaStayedReached
    /\ EvEvents("add", "provided", 0) # {}
    /\ EvEvents("log_skip", "provided", 1) # {}
    /\ EvEvents("log_skip", "built", 1) # {}
    /\ popSize = 1

\* C26: during startup start() is called first and exactly once; on_initial is
\* called exactly once for each solution passed to population.add and never for
\* a skipped one; at the end on_generation(is_new_best = true) is called exactly
\* once if the population is non-empty, otherwise only the log "created an empty
\* population" is emitted.
C26_TelemetryOrder ==
    InStartup =>
        /\ events[1].op = "start"
        /\ \A n \in 2..Len(events) : events[n].op # "start"
        /\ \A n \in 1..Len(events) :
              /\ events[n].op = "add" =>
                    Cardinality(EvEvents("on_initial", events[n].kind, events[n].idx)) = 1
              /\ events[n].op = "on_initial" =>
                    Cardinality(EvEvents("add", events[n].kind, events[n].idx)) = 1
              /\ events[n].op = "log_skip" =>
                    EvEvents("on_initial", events[n].kind, events[n].idx) = {}
        /\ pc # "done" => \A n \in 1..Len(events) : events[n].op # "on_generation"
        /\ pc = "done" =>
              LET gens == {n \in 1..Len(events) : events[n].op = "on_generation"}
                  empties == {n \in 1..Len(events) :
                                 events[n].op = "log" /\ events[n].kind = "created an empty population"}
              IN  IF popSize > 0
                  THEN /\ gens = {Len(events)}
                       /\ events[Len(events)].kind = "is_new_best"
                       /\ empties = {}
                  ELSE gens = {} /\ empties = {Len(events)}

\* startup ended with an empty population: nothing was provided and termination
\* fired before the first build
C26_Witness ==
    /\ StartupReturned
    /\ popSize = 0
    /\ terminated
    /\ events[Len(events)].op = "log"
    /\ Len(events) = 3

\* C27: at every point of startup the population size is at most initial.size,
\* hence at most max_size, whatever number of individuals is provided.
C27_StartupBounded ==
    InStartup =>
        /\ popSize <= simulator.config.initial_size
        /\ popSize <= simulator.config.max_size

\* more individuals were provided than initial.size, which is below max_size
C27_Witness ==
    /\ StartupReturned
    /\ cfg.n_individuals > cfg.initial_size
    /\ cfg.initial_size < cfg.max_size
    /\ popSize = cfg.initial_size
    /\ EvEvents("add", "provided", 0) # {}


\* the number of calls of update_and_check so far, each of which writes the window once
VcWrites == Cardinality({g \in 1..Len(vcHist) : vcHist[g] >= 0})

\* update_and_check was called in every generation up to the last call
VcEveryGeneration == \A g \in 1..Len(vcHist) : vcHist[g] >= 0

\* C23 as stated: update_and_check never returns true at a generation smaller
\* than sample - 1, and it returns true only once the window has been written
\* sample times.
C23_Original ==
    (VcJustCalled /\ vcLast.result) =>
        /\ vcLast.generation >= vcSample - 1
        /\ VcWrites >= vcSample

\* C23 amended: update_and_check never returns true at a generation smaller
\* than sample - 1, whatever the costs and the threshold; when it was called in
\* every generation so far, the window has then been written sample times.
C23_NotBeforeSample ==
    (VcJustCalled /\ vcLast.result) =>
        /\ vcLast.generation >= vcSample - 1
        /\ VcEveryGeneration => VcWrites >= vcSample

\* the predicate fired at generation sample - 1, the earliest it can, after a
\* call in every generation
C23_Witness ==
    /\ VcJustCalled
    /\ vcLast.result
    /\ vcSample = 3
    /\ vcLast.generation = vcSample - 1
    /\ VcEveryGeneration
    /\ VcWrites = vcSample


\* the positions of the tour whose job has a compatibility value
TaggedIdx(tour) == {i \in 1..Len(tour) : jobCompat[tour[i]] # "nil"}

\* the cached state agrees with the tour
StateConsistent(state, tour) ==
    IF TaggedIdx(tour) = {} THEN state \in {"absent", "nil"}
    ELSE \E i \in TaggedIdx(tour) :
            /\ \A k \in TaggedIdx(tour) : i <= k
            /\ state = jobCompat[tour[i]]

\* C24: after accept_route_state on a route, the cached compatibility state
\* holds the value of the first job of the tour that has one, and holds no value
\* exactly when no job of the tour has one, also after removals; a second call
\* changes nothing.
C24_StateConsistent ==
    [][\A r \in RouteIds :
          AcceptRouteState(r) =>
              /\ StateConsistent(routeState'[r], tours'[r])
              /\ accept_route_state(tours'[r], routeState'[r]) = routeState'[r]]_vars

\* a cached value was cleared after the tagged jobs left the tour: Some(None)
\* is written only by accept_route_state on a tour without values
C24_Witness ==
    \E r \in RouteIds :
        /\ routeState[r] = "nil"
        /\ tours[r] # <<>>
        /\ \E j \in required : jobCompat[j] # "nil"

\* C25: evaluate_job returns a violation with the module's code exactly when
\* the job has a compatibility value and the cached state of the route holds a
\* different value; it changes neither the route state nor the solution.
C25_EvaluateJob ==
    /\ [](rcCall.called =>
            (rcCall.result =
                IF /\ jobCompat[rcCall.job] # "nil"
                   /\ rcCall.state \in CompatValues
                   /\ rcCall.state # jobCompat[rcCall.job]
                THEN CompatCode ELSE 0))
    /\ [][\A r \in RouteIds, j \in RouteJobIds :
             EvaluateJob(r, j) => UNCHANGED <<jobCompat, tours, routeState, required>>]_vars

\* a job tagged b was refused on a route whose cached value is a
C25_Witness ==
    /\ rcCall.called
    /\ rcCall.result = CompatCode
    /\ rcCall.state = "a"
    /\ jobCompat[rcCall.job] = "b"


\* C28: dominance_order induces a strict partial order on solutions:
\* dominance_order(a, a) is Equal, dominance_order(a, b) is the reverse of
\* dominance_order(b, a), and if a dominates b and b dominates c then a
\* dominates c, NaN fitness included.
C28_StrictPartialOrder ==
    dOrd # <<>> =>
        /\ \A i \in Triple : dOrd[<<i, i>>] = "Equal"
        /\ \A i, j \in Triple : dOrd[<<i, j>>] = Reverse(dOrd[<<j, i>>])
        /\ \A i, j, k \in Triple :
              (dOrd[<<i, j>>] = "Less" /\ dOrd[<<j, k>>] = "Less") => dOrd[<<i, k>>] = "Less"

\* a chain of three solutions on two objectives, the last with a NaN fitness
C28_Witness ==
    /\ dOrd # <<>>
    /\ Len(dIn[1]) = 2
    /\ dOrd[<<1, 2>>] = "Less"
    /\ dOrd[<<2, 3>>] = "Less"
    /\ dOrd[<<3, 1>>] = "Greater"
    /\ dIn[3][1].k = "nan"
    /\ dIn[2][1].k # "nan"


ObjListed(objectives, objective) == \E i \in 1..Len(objectives) : objectives[i] = objective

\* the recorded index is the position of a TotalTransportCost entry
ObjCostIdxRight(mapped) ==
    mapped.cost_idx.some =>
        /\ mapped.cost_idx.value < Len(mapped.core)
        /\ mapped.core[mapped.cost_idx.value + 1] = "TotalTransportCost"

\* C29: whenever a MinimizeCost objective is listed, the recorded cost index is
\* the position of the TotalTransportCost entry in the mapped list of core
\* objectives, for every order and combination of objectives; the cost
\* accessor resolves to the transport cost and never fails or picks another
\* objective.
C29_CostIndex ==
    (/\ obResult # NoMultiObjective
     /\ ObjListed(obApi.primary, "MinimizeCost") \/ ObjListed(obApi.secondary, "MinimizeCost")
     /\ ~ObjListed(obApi.primary, "BalanceActivities")
     /\ ~ObjListed(obApi.secondary, "BalanceActivities")) =>
        /\ ObjCostIdxRight(obResult.primary)
        /\ ObjCostIdxRight(obResult.secondary)
        /\ obResult.cost = "TotalTransportCost"


\* the operation of the call produced a result rather than an error
InteropProduced ==
    /\ ioCall.read_ok
    /\ ioCall.entry = "solve_pragmatic" => ioCall.solved

\* C30: each interop entry point invokes exactly one of its two callbacks,
\* exactly once per call: success when the operation produced a result,
\* failure when it produced an error; never both and never neither.
C30_OneCallback ==
    ioPc \in {"returned", "panicked"} =>
        /\ Len(ioCallbacks) = 1
        /\ ioCallbacks[1] = (IF InteropProduced THEN "success" ELSE "failure")


DepotDone == dpTour # <<>> /\ Len(dpStops) = Len(dpTour)

RECURSIVE DepotSum(_, _, _)
DepotSum(stops, field, i) ==
    IF i > Len(stops) THEN 0
    ELSE (IF field = "serving" THEN stops[i].serving ELSE stops[i].waiting) + DepotSum(stops, field, i + 1)

\* the statistic of the scheduled tour
DepotStatistic ==
    [driving |-> dpStops[Len(dpStops)].distance,
     serving |-> DepotSum(dpStops, "serving", 1),
     waiting |-> DepotSum(dpStops, "waiting", 1),
     break_time |-> 0,
     duration |-> dpStops[Len(dpStops)].arrival - dpStops[1].departure]

====
